---- MODULE Spec2Model ----
(***************************************************************************)
(* Credit balance, order state machine, reconciliation, referral cascade   *)
(* and refund flow of the photosession bot, modelled at the level of the   *)
(* database round trips of app/database/crud.py.                           *)
(*                                                                         *)
(* Every crud call runs in its own AsyncSession (one transaction) against  *)
(* PostgreSQL at READ COMMITTED (app/config.py database_url, no isolation  *)
(* level set in app/database/__init__.py):                                 *)
(*   - a plain SELECT reads the last committed row and takes no lock;      *)
(*   - SELECT ... FOR UPDATE and UPDATE take the row lock and wait while   *)
(*     another transaction holds it; the lock is released at commit;       *)
(*   - an ORM attribute assignment (order.status = ..., user.x += n) is    *)
(*     flushed as UPDATE ... SET col = <value computed in Python>, i.e. a  *)
(*     blind write of the value computed from what the session has read.   *)
(* Tasks interleave at every await (one database round trip per step).     *)
(***************************************************************************)
EXTENDS Integers, Sequences, FiniteSets, TLC

----------------------------------------------------------------------------
(* Bounds *)

\* number of concurrent sessions (crud calls) in one run
NTasks == 3
\* number of orders that can be created in one run
NOrders == 1
\* the time by which one asyncio.sleep plus the following calls can overrun, in
\* seconds (event loop latency, the blocking HTTP status check)
MaxLatency == 10
\* the poll task is observed for this many seconds
MaxElapsed == 700
\* number of webhook requests in one run
MaxRequests == 3
\* number of confirm_generation callbacks in one run
NGens == 2
\* number of /start requests of the referred user in one run
NStarts == 3
\* longest referral code of a /start deep link, in characters
MaxCodeLen == 2
\* tasks that use user_processing_lock.acquire in one run
NHolders == 3
\* time.time() is followed up to this many seconds by the lock registry
MaxNow == 450
\* ... and by the retry handler
MaxCircuitNow == 180
\* execute_with_retry calls that run concurrently
NApiCalls == 2
\* failures recorded by one APIRetryHandler in one run
MaxFailures == 6
\* concurrent batch_style_process_photos requests of the user
NStylers == 2
\* images in one batch given to process_batch_images
NImages == 2

----------------------------------------------------------------------------
(* Program constants *)

FREE_PHOTOSHOOTS_COUNT == 2
PACKAGE_1_PHOTOSHOOTS == 3
PACKAGE_2_PHOTOSHOOTS == 10
REFERRAL_REWARD_PURCHASE_PERCENT == 10
REFERRAL_REWARD_START == 1
\* auto_check_payment: the schedule and the budget passed by auto_check_and_notify
check_intervals == <<60, 30, 60>>
remaining_checks_interval == 30
max_duration_minutes == 10
max_duration == max_duration_minutes * 60

Users == {1, 2}
NoUser == 0
\* a user id that has no row in the users table
MissingUser == 3
Tasks == 1..NTasks
Orders == 1..NOrders
\* a further order, created only where two purchases of one buyer are followed
SecondOrder == NOrders + 1
AllOrders == Orders \cup {SecondOrder}
NoOrder == 0
Packages == {1, 2}
\* user 1 buys packages and may have been referred by user 2
Buyers == {1}

\* Package.photoshoots_count of the two smallest configured packages
photoshoots_count(p) == IF p = 1 THEN PACKAGE_1_PHOTOSHOOTS ELSE PACKAGE_2_PHOTOSHOOTS

\* invoice_id values: the provisional "order_<uid>_<time>" string, the
\* gateway payment id of order o (modelled as o), and a payment id that
\* belongs to no order
TempInvoice == 0
UnknownInvoice == NOrders + 2

Callers == {"webhook", "poll", "i_paid"}

VARIABLES
    users,              \* users[u]: the committed User row
    orders,             \* orders[o]: the committed Order row
    referral_rewards,   \* the committed ReferralReward rows, in insertion order
    gateway,            \* gateway[o]: status of the payment intent at the gateway
    handler,            \* handler[o]: position of create_payment_with_contact for order o
    userLock,           \* userLock[u]: task holding the row lock of users[u], or 0
    orderLock,          \* orderLock[o]: task holding the row lock of orders[o], or 0
    tasks,              \* tasks[t]: one session running one crud call
    clock,              \* datetime.utcnow(), as a logical clock
    init_balance,       \* users[u].images_remaining in the initial state
    total_referrals,    \* total_referrals[u]: the committed User.total_referrals column
    poll,               \* the auto_check_payment task of order 1
    hook,               \* one request to handle_yookassa_webhook
    gens,               \* gens[g]: one confirm_gen callback
    starts,             \* starts[s]: one /start request (cmd_start)
    styles,             \* styles[b]: one iteration of batch_style_process_photos
    batch,              \* one run of process_batch_images
    ipaid,              \* one click on the 'I paid' button
    registry,           \* the fields of the UserProcessingLock instance
    holders,            \* holders[h]: one task using user_processing_lock.acquire
    circuit,            \* the circuit breaker fields of one APIRetryHandler
    apicalls,           \* apicalls[c]: one execute_with_retry call
    wallclock           \* time.time(), in seconds since the process started

vars == <<users, orders, referral_rewards, gateway, handler, userLock, orderLock,
          tasks, clock, init_balance, total_referrals, poll, hook, gens, starts,
          styles, batch, ipaid, registry, holders, circuit, apicalls, wallclock>>

\* the state of the handlers that are not database calls of the tasks
sideVars == <<total_referrals, poll, hook, gens, starts, styles, batch, ipaid,
              registry, holders, circuit, apicalls, wallclock>>

dbVars == <<users, orders, referral_rewards>>
lockVars == <<userLock, orderLock>>
envVars == <<gateway, handler, init_balance, sideVars>>

----------------------------------------------------------------------------
(* Helpers *)

Max(a, b) == IF a >= b THEN a ELSE b

NoTask == 0

IdleTask == [op |-> "-", pc |-> "idle", order |-> NoOrder,
             user |-> NoUser, bal |-> 0, ref |-> NoUser, paid_at |-> 0,
             pending |-> FALSE, granted |-> FALSE, rolled_back |-> FALSE, ret |-> "-"]

AbsentOrder == [user_id |-> NoUser, package_id |-> 0, invoice_id |-> TempInvoice,
                status |-> "absent", paid_at |-> 0]

\* a task starts its one crud call when its predecessor has started (tasks are
\* interchangeable, so this only removes permutations of the same run)
CanStart(t) ==
    /\ tasks[t].pc = "idle"
    /\ t > 1 => tasks[t - 1].pc # "idle"

\* the row lock is free for task t (UPDATE / SELECT FOR UPDATE does not wait)
NoLockMutant(holder, t) == TRUE
RowLockFree(holder, t) == holder = NoTask \/ holder = t

\* get_order_by_invoice_id: SELECT ... WHERE invoice_id = inv, scalar_one_or_none
get_order_by_invoice_id(inv) ==
    IF \E o \in AllOrders : orders[o].status # "absent" /\ orders[o].invoice_id = inv
    THEN CHOOSE o \in AllOrders : orders[o].status # "absent" /\ orders[o].invoice_id = inv
    ELSE NoOrder

\* get_order_by_id: SELECT ... WHERE id = order_id
get_order_by_id(order_id) ==
    IF order_id \in AllOrders /\ orders[order_id].status # "absent" THEN order_id ELSE NoOrder

----------------------------------------------------------------------------
(* Handlers outside crud: their state before they run *)

\* auto_check_payment has not been scheduled
IdlePoll == [pc |-> "none", elapsed |-> 0, i |-> 1, slept |-> 0, checks |-> 0,
             calls |-> 0, last |-> "-", late |-> FALSE, ret |-> "-"]

\* no webhook request is being handled; log holds the requests answered so far
IdleHook == [pc |-> "none", body |-> "-", inv |-> TempInvoice, task |-> NoTask, log |-> <<>>]
\* the confirm_generation callbacks of one run
Gens == 1..NGens
IdleGen == [pc |-> "idle", user |-> NoUser, ret |-> "-"]
\* the /start requests of user 1 in one run
Starts == 1..NStarts
StartUser == 1
IdleStart == [pc |-> "idle", code |-> <<>>, referrer |-> NoUser, total_referrals |-> 0,
              images_remaining |-> 0, ret |-> "-"]
\* the batch_style_process_photos requests of one user that run concurrently,
\* each in one iteration of its loop
Stylers == 1..NStylers
IdleStyler == [pc |-> "idle", user |-> NoUser, images_remaining |-> 0, ret |-> "-"]
\* process_batch_images has not been called
\* has_is_free: the local is_free_image is bound; reserved and work belong to
\* the current iteration; rollbacks counts the calls of rollback_balance
IdleBatch == [pc |-> "none", idx |-> 1, has_is_free |-> FALSE, reserved |-> FALSE,
              work |-> "-", rollbacks |-> 0, processed_count |-> 0, failed_count |-> 0]
\* check_payment_button_handler has not been called; msg is the text it shows
IdleClick == [pc |-> "none", msg |-> "-"]

\* UserProcessingLock.__init__: no lock, nobody processing, no timestamp;
\* locks[u] is "absent" when _locks has no entry for u, else the state of the
\* asyncio.Lock; NoTimestamp stands for a key _lock_timestamps does not have
cleanup_interval == 300
NoTimestamp == 0 - 1
IdleRegistry == [locks |-> [u \in Users |-> "absent"],
                 processing |-> {},
                 lock_timestamps |-> [u \in Users |-> NoTimestamp],
                 last_cleanup |-> 0]
Holders == 1..NHolders
IdleHolder == [pc |-> "idle", user |-> NoUser, ret |-> "-"]

\* prompt_api_retry = APIRetryHandler(max_retries=2, ...,
\* circuit_failure_threshold=5, circuit_timeout=60.0); __init__: the circuit
\* is closed
max_retries == 2
circuit_failure_threshold == 5
circuit_timeout == 60
ClosedCircuit == [failure_count |-> 0, circuit_open |-> FALSE, circuit_open_time |-> 0]
ApiCalls == 1..NApiCalls
IdleCall == [pc |-> "idle", attempt |-> 0, invoked |-> 0, last_exception |-> "None",
             ret |-> "-"]

----------------------------------------------------------------------------
(* Initial state *)

Init ==
    /\ \E b1 \in 0..FREE_PHOTOSHOOTS_COUNT, r \in {NoUser, 2}, utm \in BOOLEAN :
         /\ users = [u \in Users |->
                        IF u = 1
                        THEN [images_remaining |-> b1, referred_by_id |-> r, utm_source |-> utm]
                        ELSE [images_remaining |-> FREE_PHOTOSHOOTS_COUNT,
                              referred_by_id |-> NoUser, utm_source |-> FALSE]]
         /\ init_balance = [u \in Users |-> IF u = 1 THEN b1 ELSE FREE_PHOTOSHOOTS_COUNT]
    /\ orders = [o \in AllOrders |-> AbsentOrder]
    /\ referral_rewards = <<>>
    /\ gateway = [o \in AllOrders |-> "none"]
    /\ handler = [o \in AllOrders |-> "none"]
    /\ userLock = [u \in Users |-> NoTask]
    /\ orderLock = [o \in AllOrders |-> NoTask]
    /\ tasks = [t \in Tasks |-> IdleTask]
    /\ clock = 1
    /\ total_referrals = [u \in Users |->
                            Cardinality({v \in Users : users[v].referred_by_id = u})]
    /\ poll = IdlePoll
    /\ hook = IdleHook
    /\ gens = [g \in Gens |-> IdleGen]
    /\ starts = [s \in Starts |-> IdleStart]
    /\ styles = [b \in Stylers |-> IdleStyler]
    /\ batch = IdleBatch
    /\ ipaid = IdleClick
    /\ registry = IdleRegistry
    /\ holders = [h \in Holders |-> IdleHolder]
    /\ circuit = ClosedCircuit
    /\ apicalls = [c \in ApiCalls |-> IdleCall]
    /\ wallclock = 0

----------------------------------------------------------------------------
(* create_payment_with_contact and the gateway *)

\* create_order: INSERT the order in status pending under the provisional invoice id
CreateOrder(o, u, p) ==
    /\ orders[o].status = "absent"
    /\ o > 1 => orders[o - 1].status # "absent"
    /\ orders' = [orders EXCEPT ![o] = [user_id |-> u, package_id |-> p,
                                        invoice_id |-> TempInvoice,
                                        status |-> "pending", paid_at |-> 0]]
    /\ handler' = [handler EXCEPT ![o] = "intent"]
    /\ UNCHANGED <<users, referral_rewards, gateway, lockVars, tasks, clock, init_balance, sideVars>>

\* yookassa.create_payment succeeded: order.invoice_id = payment_id; commit
IntentCreated(o) ==
    /\ handler[o] = "intent"
    /\ RowLockFree(orderLock[o], NoTask)
    /\ orders' = [orders EXCEPT ![o].invoice_id = o]
    /\ gateway' = [gateway EXCEPT ![o] = "pending"]
    /\ handler' = [handler EXCEPT ![o] = "done"]
    /\ UNCHANGED <<users, referral_rewards, lockVars, tasks, clock, init_balance, sideVars>>

\* yookassa.create_payment raised: order.status = "failed"; commit
IntentFailed(o) ==
    /\ handler[o] = "intent"
    /\ RowLockFree(orderLock[o], NoTask)
    /\ orders' = [orders EXCEPT ![o].status = "failed"]
    /\ handler' = [handler EXCEPT ![o] = "done"]
    /\ UNCHANGED <<users, referral_rewards, gateway, lockVars, tasks, clock, init_balance, sideVars>>

\* the buyer pays: the gateway reports succeeded, paid = true from now on
GatewaySucceeded(o) ==
    /\ gateway[o] = "pending"
    /\ gateway' = [gateway EXCEPT ![o] = "succeeded"]
    /\ UNCHANGED <<dbVars, handler, lockVars, tasks, clock, init_balance, sideVars>>

----------------------------------------------------------------------------
(* Reservation guard: check_and_reserve_balance, rollback_balance *)

\* images_remaining <= 0 refuses the reservation
CanReserveMutant(bal) == bal >= 0
CanReserve(bal) == ~(bal <= 0)

\* "if not user or user.images_remaining <= 0: return False, False"
ReserveRefusedMutant(u) == u \notin Users
ReserveRefused(u) == u \notin Users \/ ~CanReserve(users[u].images_remaining)

\* SELECT ... FOR UPDATE (no row, no lock); refuse when there is no such user
\* or the balance is exhausted
ReserveSelect(t, u) ==
    /\ CanStart(t)
    /\ u \in Users => RowLockFree(userLock[u], t)
    /\ IF ReserveRefused(u)
       THEN /\ userLock' = userLock
            /\ tasks' = [tasks EXCEPT ![t] = [IdleTask EXCEPT !.op = "reserve",
                            !.pc = "done", !.user = u, !.ret = "False"]]
       ELSE /\ userLock' = [userLock EXCEPT ![u] = t]
            /\ tasks' = [tasks EXCEPT ![t] = [IdleTask EXCEPT !.op = "reserve",
                            !.pc = "reserve_commit", !.user = u,
                            !.bal = users[u].images_remaining]]
    /\ UNCHANGED <<dbVars, envVars, orderLock, clock>>

\* user.images_remaining -= 1; commit
ReserveCommit(t) ==
    /\ tasks[t].pc = "reserve_commit"
    /\ users' = [users EXCEPT ![tasks[t].user].images_remaining = tasks[t].bal - 1]
    /\ userLock' = [userLock EXCEPT ![tasks[t].user] = NoTask]
    /\ tasks' = [tasks EXCEPT ![t].pc = "reserved", ![t].bal = 0, ![t].ret = "True"]
    /\ UNCHANGED <<orders, referral_rewards, envVars, orderLock, clock>>

\* the reserved unit of work failed: rollback_balance, SELECT ... FOR UPDATE
RollbackSelect(t) ==
    /\ tasks[t].pc = "reserved"
    /\ RowLockFree(userLock[tasks[t].user], t)
    /\ userLock' = [userLock EXCEPT ![tasks[t].user] = t]
    /\ tasks' = [tasks EXCEPT ![t].pc = "rollback_commit",
                              ![t].bal = users[tasks[t].user].images_remaining]
    /\ UNCHANGED <<dbVars, envVars, orderLock, clock>>

\* user.images_remaining += 1; commit
RollbackCommit(t) ==
    /\ tasks[t].pc = "rollback_commit"
    /\ users' = [users EXCEPT ![tasks[t].user].images_remaining = tasks[t].bal + 1]
    /\ userLock' = [userLock EXCEPT ![tasks[t].user] = NoTask]
    /\ tasks' = [tasks EXCEPT ![t].pc = "done", ![t].bal = 0, ![t].rolled_back = TRUE]
    /\ UNCHANGED <<orders, referral_rewards, envVars, orderLock, clock>>

----------------------------------------------------------------------------
(* Reconciliation: mark_order_paid *)

\* int(photoshoots_count * REFERRAL_REWARD_PURCHASE_PERCENT / 100)
RewardCountMutant(count) == (count * REFERRAL_REWARD_PURCHASE_PERCENT + 99) \div 100
RewardCount(count) == (count * REFERRAL_REWARD_PURCHASE_PERCENT) \div 100

\* "if not order or order.status == 'paid': return None"
NoPaidGuardMutant(o) == o = NoOrder
AlreadyReconciled(o) == o = NoOrder \/ orders[o].status = "paid"

\* the webhook handler, the poll task and the 'I paid' handler call
\* mark_order_paid after the gateway reported succeeded and paid = true for
\* the payment id; a notification may also carry a payment id of no order.
\* get_order_by_invoice_id, then the status guard.
MopSelect(t, caller, inv) ==
    /\ CanStart(t)
    /\ \/ inv \in AllOrders /\ gateway[inv] = "succeeded"
       \/ inv = UnknownInvoice /\ caller = "webhook"
    /\ LET o == get_order_by_invoice_id(inv) IN
         IF AlreadyReconciled(o)
         THEN tasks' = [tasks EXCEPT ![t] = [IdleTask EXCEPT !.op = "mark_order_paid",
                            !.pc = "done", !.order = o, !.ret = "None"]]
         ELSE tasks' = [tasks EXCEPT ![t] = [IdleTask EXCEPT !.op = "mark_order_paid",
                            !.pc = "mop_refresh", !.order = o]]
    /\ UNCHANGED <<dbVars, envVars, lockVars, clock>>

\* order.status = "paid"; order.paid_at = utcnow(); session.refresh(order,
\* ['user', 'package']) autoflushes the UPDATE of the order row (row lock) and
\* loads the user; order.user.images_remaining += photoshoots_count in memory
MopRefresh(t) ==
    /\ tasks[t].pc = "mop_refresh"
    /\ LET o == tasks[t].order
           u == orders[o].user_id
       IN /\ RowLockFree(orderLock[o], t)
          /\ orderLock' = [orderLock EXCEPT ![o] = t]
          /\ tasks' = [tasks EXCEPT ![t].pc = IF users[u].utm_source THEN "mop_track"
                                                                     ELSE "mop_referral",
                                    ![t].user = u,
                                    ![t].bal = users[u].images_remaining,
                                    ![t].ref = users[u].referred_by_id,
                                    ![t].paid_at = clock,
                                    ![t].pending = TRUE]
    /\ clock' = clock + 1
    /\ UNCHANGED <<dbVars, envVars, userLock>>

\* the buyer's balance as flushed by the session: the value computed in Python
GrantNothingMutant(t) == tasks[t].bal
GrantedBalance(t) == tasks[t].bal + photoshoots_count(orders[tasks[t].order].package_id)

\* metrika_service.track_event for a buyer with UTM attribution: session.add(event);
\* session.commit() commits the status flip and the grant
MopTrackEvent(t) ==
    /\ tasks[t].pc = "mop_track"
    /\ LET o == tasks[t].order
           u == tasks[t].user
       IN /\ RowLockFree(userLock[u], t)
          /\ orders' = [orders EXCEPT ![o].status = "paid", ![o].paid_at = tasks[t].paid_at]
          /\ users' = [users EXCEPT ![u].images_remaining = GrantedBalance(t)]
          /\ orderLock' = [orderLock EXCEPT ![o] = NoTask]
    /\ tasks' = [tasks EXCEPT ![t].pc = "mop_referral", ![t].pending = FALSE,
                              ![t].granted = TRUE]
    /\ UNCHANGED <<referral_rewards, envVars, userLock, clock>>

\* add_referral_reward: UPDATE users SET images_remaining = images_remaining + n
\* on the referrer's row, INSERT the ReferralReward row
add_referral_reward(us, rows, user_id, referred_user_id, reward_type, images_rewarded, order_id) ==
    [users |-> [us EXCEPT ![user_id].images_remaining = @ + images_rewarded],
     rewards |-> Append(rows, [user_id |-> user_id, referred_user_id |-> referred_user_id,
                               order_id |-> order_id, reward_type |-> reward_type,
                               images_rewarded |-> images_rewarded])]

\* "if order.user.referred_by_id: ... if reward_count > 0: add_referral_reward(...)",
\* then session.commit(): commits whatever the session has not committed yet
MopReferral(t) ==
    /\ tasks[t].pc = "mop_referral"
    /\ LET o == tasks[t].order
           u == tasks[t].user
           ref == tasks[t].ref
           reward_count == RewardCount(photoshoots_count(orders[o].package_id))
           give == ref # NoUser /\ reward_count > 0
           us1 == IF tasks[t].pending
                  THEN [users EXCEPT ![u].images_remaining = GrantedBalance(t)]
                  ELSE users
           res == add_referral_reward(us1, referral_rewards, ref, u,
                                      "referral_purchase", reward_count, o)
       IN /\ tasks[t].pending => RowLockFree(userLock[u], t)
          /\ give => RowLockFree(userLock[ref], t)
          /\ users' = IF give THEN res.users ELSE us1
          /\ referral_rewards' = IF give THEN res.rewards ELSE referral_rewards
          /\ orders' = IF tasks[t].pending
                       THEN [orders EXCEPT ![o].status = "paid",
                                           ![o].paid_at = tasks[t].paid_at]
                       ELSE orders
          /\ orderLock' = [orderLock EXCEPT ![o] = NoTask]
    /\ tasks' = [tasks EXCEPT ![t] = [IdleTask EXCEPT !.op = "mark_order_paid",
                              !.pc = "done", !.order = tasks[t].order,
                              !.user = tasks[t].user, !.paid_at = tasks[t].paid_at,
                              !.granted = TRUE, !.ret = "Order"]]
    /\ UNCHANGED <<envVars, userLock, clock>>

\* session.rollback(), also the one of the session's context manager when an
\* exception leaves it: the changes not committed yet are discarded, the
\* committed rows stay as they are
SessionRollback(os, o) == os

\* metrika_service.track_event failed (session.get or the commit of the event
\* raised): "except Exception: await session.rollback(); return None" discards
\* the status flip and the grant, which were not committed yet, and expires
\* the loaded rows; mark_order_paid then raises on "order.user.referred_by_id"
MopTrackFailed(t) ==
    /\ tasks[t].pc = "mop_track"
    /\ orders' = SessionRollback(orders, tasks[t].order)
    /\ orderLock' = [orderLock EXCEPT ![tasks[t].order] = NoTask]
    /\ tasks' = [tasks EXCEPT ![t].pc = "done", ![t].bal = 0, ![t].pending = FALSE,
                              ![t].ret = "raised"]
    /\ UNCHANGED <<users, referral_rewards, envVars, userLock, clock>>

\* add_referral_reward or the final session.commit() raised: the exception
\* leaves mark_order_paid and its session; what track_event committed stays
\* committed, what was still pending is discarded
MopReferralFailed(t) ==
    /\ tasks[t].pc = "mop_referral"
    /\ orders' = SessionRollback(orders, tasks[t].order)
    /\ orderLock' = [orderLock EXCEPT ![tasks[t].order] = NoTask]
    /\ tasks' = [tasks EXCEPT ![t].pc = "done", ![t].bal = 0, ![t].pending = FALSE,
                              ![t].ret = "raised"]
    /\ UNCHANGED <<users, referral_rewards, envVars, userLock, clock>>

----------------------------------------------------------------------------
(* Admin operations: cancel_order, refund_order *)

\* "if order.status == 'paid': return None  # Cannot cancel paid order"
CancelAllowed(status) == status # "paid"

\* get_order_by_id, then the status guard
CancelSelect(t, order_id) ==
    /\ CanStart(t)
    /\ LET o == get_order_by_id(order_id) IN
         IF o = NoOrder \/ ~CancelAllowed(orders[o].status)
         THEN tasks' = [tasks EXCEPT ![t] = [IdleTask EXCEPT !.op = "cancel_order",
                            !.pc = "done", !.order = o, !.ret = "None"]]
         ELSE tasks' = [tasks EXCEPT ![t] = [IdleTask EXCEPT !.op = "cancel_order",
                            !.pc = "cancel_commit", !.order = o]]
    /\ UNCHANGED <<dbVars, envVars, lockVars, clock>>

\* order.status = "cancelled"; commit
CancelCommit(t) ==
    /\ tasks[t].pc = "cancel_commit"
    /\ RowLockFree(orderLock[tasks[t].order], t)
    /\ orders' = [orders EXCEPT ![tasks[t].order].status = "cancelled"]
    /\ tasks' = [tasks EXCEPT ![t].pc = "done", ![t].ret = "Order"]
    /\ UNCHANGED <<users, referral_rewards, envVars, lockVars, clock>>

\* "if order.status != 'paid': return None  # Can only refund paid orders"
RefundAnyStatusMutant(status) == status # "absent"
RefundAllowed(status) == status = "paid"

\* "if images_remaining >= photoshoots_to_deduct: -= ... else: = 0"
DeductUnclampedMutant(bal, photoshoots_to_deduct) == bal - photoshoots_to_deduct
ClearBalanceMutant(bal, photoshoots_to_deduct) == 0
DeductClamped(bal, photoshoots_to_deduct) ==
    IF bal >= photoshoots_to_deduct THEN bal - photoshoots_to_deduct ELSE 0

\* get_order_by_id with selectinload(Order.user): reads the order and its user
RefundSelect(t, order_id) ==
    /\ CanStart(t)
    /\ LET o == get_order_by_id(order_id) IN
         IF o = NoOrder \/ ~RefundAllowed(orders[o].status)
         THEN tasks' = [tasks EXCEPT ![t] = [IdleTask EXCEPT !.op = "refund_order",
                            !.pc = "done", !.order = o, !.ret = "None"]]
         ELSE tasks' = [tasks EXCEPT ![t] = [IdleTask EXCEPT !.op = "refund_order",
                            !.pc = "refund_refresh", !.order = o,
                            !.user = orders[o].user_id,
                            !.bal = users[orders[o].user_id].images_remaining]]
    /\ UNCHANGED <<dbVars, envVars, lockVars, clock>>

\* session.refresh(order, ['user', 'package']): the user is already in the
\* session's identity map; depending on the SQLAlchemy version the refresh keeps
\* the loaded attributes or repopulates them with the committed row
RefundRefresh(t) ==
    /\ tasks[t].pc = "refund_refresh"
    /\ \E b \in {tasks[t].bal, users[tasks[t].user].images_remaining} :
         tasks' = [tasks EXCEPT ![t].pc = "refund_commit", ![t].bal = b]
    /\ UNCHANGED <<dbVars, envVars, lockVars, clock>>

\* the UPDATE flushed by refund_order: only the row of order.user is written
ClawBackRewardMutant(us, u, bal, photoshoots_to_deduct) ==
    LET ref == us[u].referred_by_id
        us1 == [us EXCEPT ![u].images_remaining = DeductClamped(bal, photoshoots_to_deduct)]
    IN IF ref = NoUser THEN us1
       ELSE [us1 EXCEPT ![ref].images_remaining =
                           Max(0, @ - RewardCount(photoshoots_to_deduct))]
RefundedUsers(us, u, bal, photoshoots_to_deduct) ==
    [us EXCEPT ![u].images_remaining = DeductClamped(bal, photoshoots_to_deduct)]

\* deduct the package from the balance read, order.status = "refunded"; commit
RefundCommit(t) ==
    /\ tasks[t].pc = "refund_commit"
    /\ LET o == tasks[t].order
           u == tasks[t].user
       IN /\ RowLockFree(userLock[u], t)
          /\ RowLockFree(orderLock[o], t)
          /\ users' = RefundedUsers(users, u, tasks[t].bal,
                                    photoshoots_count(orders[o].package_id))
          /\ orders' = [orders EXCEPT ![o].status = "refunded"]
    /\ tasks' = [tasks EXCEPT ![t].pc = "done", ![t].bal = 0, ![t].ret = "Order"]
    /\ UNCHANGED <<referral_rewards, envVars, lockVars, clock>>

\* admin_add_images_count: "Add images by creating a manual order": INSERT an
\* inactive Package of the requested count and an Order of it with
\* status="paid" and invoice id "manual_<uid>_<time>"; commit.  No balance is
\* written.  A count that is not a positive number, or an unknown target user,
\* returns before any write.
ManualPackage == 3
ManualInvoice == NOrders + 3
AdminAddImages(o, u) ==
    /\ orders[o].status = "absent"
    /\ o > 1 => orders[o - 1].status # "absent"
    /\ u \in Users
    /\ orders' = [orders EXCEPT ![o] = [user_id |-> u, package_id |-> ManualPackage,
                                        invoice_id |-> ManualInvoice,
                                        status |-> "paid", paid_at |-> 0]]
    /\ UNCHANGED <<users, referral_rewards, gateway, handler, lockVars, tasks, clock,
                   init_balance, sideVars>>

----------------------------------------------------------------------------
(* Specification *)

Next ==
    \/ \E o \in Orders, u \in Buyers, p \in Packages : CreateOrder(o, u, p)
    \/ \E o \in Orders : IntentCreated(o)
    \/ \E o \in Orders : IntentFailed(o)
    \/ \E o \in Orders : GatewaySucceeded(o)
    \/ \E t \in Tasks, u \in Users \cup {MissingUser} : ReserveSelect(t, u)
    \/ \E t \in Tasks : ReserveCommit(t)
    \/ \E t \in Tasks : RollbackSelect(t)
    \/ \E t \in Tasks : RollbackCommit(t)
    \/ \E t \in Tasks, c \in Callers, inv \in Orders \cup {UnknownInvoice} : MopSelect(t, c, inv)
    \/ \E t \in Tasks : MopRefresh(t)
    \/ \E t \in Tasks : MopTrackEvent(t)
    \/ \E t \in Tasks : MopReferral(t)
    \/ \E t \in Tasks, o \in Orders : CancelSelect(t, o)
    \/ \E t \in Tasks : CancelCommit(t)
    \/ \E t \in Tasks, o \in Orders : RefundSelect(t, o)
    \/ \E t \in Tasks : RefundRefresh(t)
    \/ \E t \in Tasks : RefundCommit(t)

Spec == Init /\ [][Next]_vars

\* no crud call is between its first round trip and its commit
NoCallInFlight == \A t \in Tasks : tasks[t].pc \in {"idle", "reserved", "done"}

\* the same program when the crud calls do not overlap: a call starts only
\* when no other call is in flight
SeqNext ==
    \/ \E o \in Orders, u \in Buyers, p \in Packages : CreateOrder(o, u, p)
    \/ \E o \in Orders : IntentCreated(o)
    \/ \E o \in Orders : IntentFailed(o)
    \/ \E o \in Orders : GatewaySucceeded(o)
    \/ \E t \in Tasks, u \in Users \cup {MissingUser} : NoCallInFlight /\ ReserveSelect(t, u)
    \/ \E t \in Tasks : ReserveCommit(t)
    \/ \E t \in Tasks : NoCallInFlight /\ RollbackSelect(t)
    \/ \E t \in Tasks : RollbackCommit(t)
    \/ \E t \in Tasks, c \in Callers, inv \in Orders \cup {UnknownInvoice} :
          NoCallInFlight /\ MopSelect(t, c, inv)
    \/ \E t \in Tasks : MopRefresh(t)
    \/ \E t \in Tasks : MopTrackEvent(t)
    \/ \E t \in Tasks : MopReferral(t)
    \/ \E t \in Tasks, o \in Orders : NoCallInFlight /\ CancelSelect(t, o)
    \/ \E t \in Tasks : CancelCommit(t)
    \/ \E t \in Tasks, o \in Orders : NoCallInFlight /\ RefundSelect(t, o)
    \/ \E t \in Tasks : RefundRefresh(t)
    \/ \E t \in Tasks : RefundCommit(t)

SpecSeq == Init /\ [][SeqNext]_vars

\* the ways an Order row comes to exist and to be paid: purchases reconciled by
\* the webhook, and the admin's manual orders
AdminNext ==
    \/ \E o \in Orders, u \in Buyers, p \in Packages : CreateOrder(o, u, p)
    \/ \E o \in Orders : IntentCreated(o)
    \/ \E o \in Orders : IntentFailed(o)
    \/ \E o \in Orders : GatewaySucceeded(o)
    \/ \E t \in Tasks, o \in Orders : MopSelect(t, "webhook", o)
    \/ \E t \in Tasks : MopRefresh(t)
    \/ \E t \in Tasks : MopTrackEvent(t)
    \/ \E t \in Tasks : MopReferral(t)
    \/ \E o \in Orders, u \in Users : AdminAddImages(o, u)

AdminSpec == Init /\ [][AdminNext]_vars

\* reconciliation of up to two purchases of one buyer when the steps after the
\* status flip can fail
FaultNext ==
    \/ \E o \in AllOrders, u \in Buyers, p \in Packages : CreateOrder(o, u, p)
    \/ \E o \in AllOrders : IntentCreated(o)
    \/ \E o \in AllOrders : GatewaySucceeded(o)
    \/ \E t \in Tasks, c \in Callers, o \in AllOrders : MopSelect(t, c, o)
    \/ \E t \in Tasks : MopRefresh(t)
    \/ \E t \in Tasks : MopTrackEvent(t)
    \/ \E t \in Tasks : MopTrackFailed(t)
    \/ \E t \in Tasks : MopReferral(t)
    \/ \E t \in Tasks : MopReferralFailed(t)

FaultSpec == Init /\ [][FaultNext]_vars

----------------------------------------------------------------------------
(* The poll task: PaymentChecker.auto_check_payment *)

\* the session of process_successful_payment, the order the task polls
PollTask == 1
PollOrder == 1

\* check_payment_status: get_payment_status raised (returns None), or the
\* payment as the gateway holds it; a two-stage payment is paid before it is
\* captured
ErrorInfo == [status |-> "error", paid |-> FALSE]
PaymentInfos == {ErrorInfo, [status |-> "pending", paid |-> FALSE],
                 [status |-> "waiting_for_capture", paid |-> TRUE],
                 [status |-> "succeeded", paid |-> TRUE],
                 [status |-> "canceled", paid |-> FALSE]}
check_payment_status(g) ==
    {ErrorInfo} \cup
    (IF g = "succeeded" THEN {[status |-> "succeeded", paid |-> TRUE]}
     ELSE IF g = "canceled" THEN {[status |-> "canceled", paid |-> FALSE]}
     ELSE {[status |-> "pending", paid |-> FALSE],
           [status |-> "waiting_for_capture", paid |-> TRUE]})

\* "if status == 'succeeded' and payment_info.get('paid')"
PaidOnlyMutant(info) == info.paid
PaidSucceeded(info) == info.status = "succeeded" /\ info.paid

\* "if datetime.utcnow() - start_time > max_duration: return None" (for loop)
BudgetExceeded(elapsed) == elapsed > max_duration

\* "while datetime.utcnow() - start_time < max_duration"
NeverExpiresMutant(elapsed) == TRUE
BudgetLeft(elapsed) == elapsed < max_duration

\* the buyer cancels, or the payment expires at the gateway
GatewayCanceled(o) ==
    /\ gateway[o] = "pending"
    /\ gateway' = [gateway EXCEPT ![o] = "canceled"]
    /\ UNCHANGED <<dbVars, handler, lockVars, tasks, clock, init_balance, sideVars>>

\* create_payment_with_contact: asyncio.create_task(auto_check_and_notify(...))
\* once the payment intent exists; start_time = utcnow()
AutoCheckStart ==
    /\ poll.pc = "none"
    /\ handler[PollOrder] = "done"
    /\ gateway[PollOrder] # "none"
    /\ poll' = [IdlePoll EXCEPT !.pc = "sleep"]
    /\ UNCHANGED <<dbVars, gateway, handler, lockVars, tasks, clock, init_balance,
                   total_referrals, hook, gens, starts,
                   styles, batch, ipaid, registry, holders, circuit, apicalls, wallclock>>

\* await asyncio.sleep(interval): the task resumes no earlier than interval
\* seconds later; in the for loop the budget is tested after the sleep
AutoCheckSleep(latency) ==
    /\ poll.pc = "sleep"
    /\ LET in_for == poll.i <= Len(check_intervals)
           interval == IF in_for THEN check_intervals[poll.i]
                                 ELSE remaining_checks_interval
           now == poll.elapsed + interval + latency
       IN /\ now <= MaxElapsed
          /\ poll' = IF in_for /\ BudgetExceeded(now)
                     THEN [poll EXCEPT !.pc = "returned", !.elapsed = now,
                                       !.slept = @ + interval, !.ret = "None"]
                     ELSE [poll EXCEPT !.pc = "check", !.elapsed = now,
                                       !.slept = @ + interval]
    /\ UNCHANGED <<dbVars, gateway, handler, lockVars, tasks, clock, init_balance,
                   total_referrals, hook, gens, starts,
                   styles, batch, ipaid, registry, holders, circuit, apicalls, wallclock>>

\* the branch taken on payment_info: "if not payment_info: continue", "return
\* 'succeeded'" after process_successful_payment, "return 'canceled'", or the
\* end of the loop body
StopOnErrorMutant(info) ==
    IF PaidSucceeded(info) THEN "succeeded"
    ELSE IF info.status = "canceled" \/ info = ErrorInfo THEN "canceled"
    ELSE "continue"
CheckBranch(info) ==
    IF info = ErrorInfo THEN "continue"
    ELSE IF PaidSucceeded(info) THEN "succeeded"
    ELSE IF info.status = "canceled" THEN "canceled"
    ELSE "continue"

\* payment_info = await self.check_payment_status(payment_id) and the branch on it
AutoCheckStatus(info) ==
    /\ poll.pc = "check"
    /\ info \in check_payment_status(gateway[PollOrder])
    /\ LET seen == [poll EXCEPT !.checks = @ + 1, !.last = info.status,
                                !.late = @ \/ poll.elapsed > max_duration]
           branch == CheckBranch(info)
       IN poll' =
            IF branch = "succeeded"
            THEN [seen EXCEPT !.pc = "reconcile", !.calls = @ + 1]
            ELSE IF branch = "canceled"
            THEN [seen EXCEPT !.pc = "returned", !.ret = "canceled"]
            ELSE [seen EXCEPT !.pc = IF poll.i < Len(check_intervals) THEN "sleep"
                                                                      ELSE "while",
                              !.i = IF poll.i <= Len(check_intervals) THEN @ + 1 ELSE @]
    /\ UNCHANGED <<dbVars, gateway, handler, lockVars, tasks, clock, init_balance,
                   total_referrals, hook, gens, starts,
                   styles, batch, ipaid, registry, holders, circuit, apicalls, wallclock>>

\* the head of the while loop; "return None" when the budget is used up
AutoCheckWhile ==
    /\ poll.pc = "while"
    /\ poll' = IF BudgetLeft(poll.elapsed)
               THEN [poll EXCEPT !.pc = "sleep"]
               ELSE [poll EXCEPT !.pc = "returned", !.ret = "None"]
    /\ UNCHANGED <<dbVars, gateway, handler, lockVars, tasks, clock, init_balance,
                   total_referrals, hook, gens, starts,
                   styles, batch, ipaid, registry, holders, circuit, apicalls, wallclock>>

\* process_successful_payment: mark_order_paid(session, payment_id) in a session
\* of its own
AutoCheckReconcile ==
    /\ poll.pc = "reconcile"
    /\ MopSelect(PollTask, "poll", PollOrder)

\* process_successful_payment returned (True or False): return 'succeeded'
AutoCheckReturn ==
    /\ poll.pc = "reconcile"
    /\ tasks[PollTask].pc = "done"
    /\ poll' = [poll EXCEPT !.pc = "returned", !.ret = "succeeded"]
    /\ UNCHANGED <<dbVars, gateway, handler, lockVars, tasks, clock, init_balance,
                   total_referrals, hook, gens, starts,
                   styles, batch, ipaid, registry, holders, circuit, apicalls, wallclock>>

\* the steps of the poll task itself
AutoCheckStep ==
    \/ \E latency \in {0, MaxLatency} : AutoCheckSleep(latency)
    \/ \E info \in PaymentInfos : AutoCheckStatus(info)
    \/ AutoCheckWhile
    \/ AutoCheckReconcile
    \/ MopRefresh(PollTask)
    \/ MopTrackEvent(PollTask)
    \/ MopReferral(PollTask)
    \/ AutoCheckReturn

\* one purchase followed by its poll task and no webhook
PollNext ==
    \/ \E u \in Buyers, p \in Packages : CreateOrder(PollOrder, u, p)
    \/ IntentCreated(PollOrder)
    \/ IntentFailed(PollOrder)
    \/ GatewaySucceeded(PollOrder)
    \/ GatewayCanceled(PollOrder)
    \/ AutoCheckStart
    \/ \E latency \in {0, MaxLatency} : AutoCheckSleep(latency)
    \/ \E info \in PaymentInfos : AutoCheckStatus(info)
    \/ AutoCheckWhile
    \/ AutoCheckReconcile
    \/ MopRefresh(PollTask)
    \/ MopTrackEvent(PollTask)
    \/ MopReferral(PollTask)
    \/ AutoCheckReturn

\* create_payment_with_contact after the commit of the invoice id: one of the
\* awaits before asyncio.create_task (state.update_data, the two
\* message.answer calls to Telegram) raised; "except Exception:
\* order.status = 'failed'; await session.commit()", and no task is created
AnswerFailed(o) ==
    /\ handler[o] = "done"
    /\ gateway[o] # "none"
    /\ o = PollOrder => poll.pc = "none"
    /\ RowLockFree(orderLock[o], NoTask)
    /\ orders' = [orders EXCEPT ![o].status = "failed"]
    /\ handler' = [handler EXCEPT ![o] = "aborted"]
    /\ UNCHANGED <<users, referral_rewards, gateway, lockVars, tasks, clock, init_balance,
                   sideVars>>

PollSpec == Init /\ [][PollNext]_vars

\* one purchase with every way create_payment_with_contact can end, followed
\* by its poll task
PayNext ==
    \/ \E u \in Buyers, p \in Packages : CreateOrder(PollOrder, u, p)
    \/ IntentCreated(PollOrder)
    \/ IntentFailed(PollOrder)
    \/ AnswerFailed(PollOrder)
    \/ GatewaySucceeded(PollOrder)
    \/ GatewayCanceled(PollOrder)
    \/ AutoCheckStart
    \/ \E latency \in {0, MaxLatency} : AutoCheckSleep(latency)
    \/ \E info \in PaymentInfos : AutoCheckStatus(info)
    \/ AutoCheckWhile
    \/ AutoCheckReconcile
    \/ MopRefresh(PollTask)
    \/ MopTrackEvent(PollTask)
    \/ MopReferral(PollTask)
    \/ AutoCheckReturn

PaySpec == Init /\ [][PayNext]_vars

\* the event loop resumes a task whose sleep or call has completed
PollLive == PollSpec /\ WF_vars(AutoCheckStep)

----------------------------------------------------------------------------
(* The webhook endpoint: handle_yookassa_webhook, process_payment_webhook *)

\* what a POST to the endpoint can carry: a body that is not JSON, a body
\* WebhookNotification rejects, a payment that is not succeeded and paid, a
\* succeeded and paid payment
WebhookBodies == {"unparseable", "rejected", "not_succeeded", "succeeded_unpaid",
                  "succeeded"}

\* verify_webhook_notification: None (valid = FALSE) when WebhookNotification
\* raises, else the status and the paid flag of the payment object
verify_webhook_notification(body) ==
    [valid  |-> body \notin {"unparseable", "rejected"},
     status |-> IF body \in {"succeeded", "succeeded_unpaid"} THEN "succeeded"
                ELSE IF body = "not_succeeded" THEN "pending" ELSE "-",
     paid   |-> body = "succeeded"]

\* process_payment_webhook goes on to mark_order_paid: "if not payment_info:
\* return False", 'if status != "succeeded" or not paid: return False'
IgnorePaidMutant(payment_info) ==
    payment_info.valid /\ ~(payment_info.status # "succeeded")
ReconcileInvoked(payment_info) ==
    payment_info.valid /\ ~(payment_info.status # "succeeded" \/ ~payment_info.paid)

\* web.Response(status=200) on success, on False and in "except Exception"
RetryOnErrorMutant(outcome) == IF outcome = "exception" THEN 500 ELSE 200
WebhookResponse(outcome) ==
    IF outcome = "True" THEN 200 ELSE IF outcome = "False" THEN 200 ELSE 200

\* the first session (task) not used yet
NextTask == Cardinality({t \in Tasks : tasks[t].pc # "idle"}) + 1

\* the request is answered: the response is logged and the handler is free again
Respond(outcome) ==
    [IdleHook EXCEPT !.log = Append(hook.log, [body |-> hook.body, inv |-> hook.inv,
                                               task |-> hook.task, outcome |-> outcome,
                                               status |-> WebhookResponse(outcome)])]

\* await request.json(); verify_webhook_notification; the status test of
\* process_payment_webhook
WebhookRequest(body, inv) ==
    /\ hook.pc = "none"
    /\ Len(hook.log) < MaxRequests
    /\ inv = TempInvoice <=> ~verify_webhook_notification(body).valid
    /\ inv \in Orders => IF body = "succeeded" THEN gateway[inv] = "succeeded"
                                                ELSE gateway[inv] # "none"
    /\ LET invoked == ReconcileInvoked(verify_webhook_notification(body)) IN
         hook' = [hook EXCEPT !.pc = IF invoked THEN "mark" ELSE "respond",
                              !.body = body, !.inv = inv,
                              !.task = IF invoked THEN NextTask ELSE NoTask]
    /\ UNCHANGED <<dbVars, gateway, handler, lockVars, tasks, clock, init_balance,
                   total_referrals, poll, gens, starts,
                   styles, batch, ipaid, registry, holders, circuit, apicalls, wallclock>>

\* request.json() raised: "except Exception" answers
\* verify_webhook_notification returned None, or the payment is not succeeded
\* and paid: process_payment_webhook returned False
WebhookReject ==
    /\ hook.pc = "respond"
    /\ hook' = Respond(IF hook.body = "unparseable" THEN "exception" ELSE "False")
    /\ UNCHANGED <<dbVars, gateway, handler, lockVars, tasks, clock, init_balance,
                   total_referrals, poll, gens, starts,
                   styles, batch, ipaid, registry, holders, circuit, apicalls, wallclock>>

\* async with db.get_session() as session: mark_order_paid(session, payment_id)
WebhookMarkPaid ==
    /\ hook.pc = "mark"
    /\ hook.task \in Tasks
    /\ MopSelect(hook.task, "webhook", hook.inv)

\* the database cannot be reached: get_session / the first statement raises,
\* "except Exception" answers
WebhookRaise ==
    /\ hook.pc = "mark"
    /\ hook.task \in Tasks => tasks[hook.task].pc = "idle"
    /\ hook' = Respond("exception")
    /\ UNCHANGED <<dbVars, gateway, handler, lockVars, tasks, clock, init_balance,
                   total_referrals, poll, gens, starts,
                   styles, batch, ipaid, registry, holders, circuit, apicalls, wallclock>>

\* mark_order_paid returned: None gives False, the order gives True (a failing
\* notify_payment_success is caught and logged)
WebhookRespond ==
    /\ hook.pc = "mark"
    /\ hook.task \in Tasks
    /\ tasks[hook.task].pc = "done"
    /\ hook' = Respond(IF tasks[hook.task].ret = "Order" THEN "True" ELSE "False")
    /\ UNCHANGED <<dbVars, gateway, handler, lockVars, tasks, clock, init_balance,
                   total_referrals, poll, gens, starts,
                   styles, batch, ipaid, registry, holders, circuit, apicalls, wallclock>>

\* purchases and the webhook requests of the gateway, one request at a time
WebhookNext ==
    \/ \E o \in Orders, u \in Buyers, p \in Packages : CreateOrder(o, u, p)
    \/ \E o \in Orders : IntentCreated(o)
    \/ \E o \in Orders : IntentFailed(o)
    \/ \E o \in Orders : GatewaySucceeded(o)
    \/ \E body \in WebhookBodies, inv \in Orders \cup {TempInvoice, UnknownInvoice} :
          WebhookRequest(body, inv)
    \/ WebhookReject
    \/ WebhookMarkPaid
    \/ WebhookRaise
    \/ \E t \in Tasks : MopRefresh(t)
    \/ \E t \in Tasks : MopTrackEvent(t)
    \/ \E t \in Tasks : MopReferral(t)
    \/ WebhookRespond

WebhookSpec == Init /\ [][WebhookNext]_vars

----------------------------------------------------------------------------
(* The 'I paid' button: check_payment_button_handler *)

\* the session of the webhook's (or poll task's) reconciliation and the session
\* of the click's process_successful_payment, which starts second
OtherTask == 1
ClickTask == 2

\* "if success:" the message 'payment confirmed', else the message 'payment
\* received, but a problem occurred ... an error while crediting the package
\* ... contact support'
ClickMessage(success) == IF success THEN "confirmed" ELSE "crediting_problem"

\* process_successful_payment: "if not order: return False", else True
ProcessedSuccessfully(t) == tasks[t].ret = "Order"

\* the click: checker.check_payment_status(payment_id) and the branch on it
IPaidCheck(info) ==
    /\ ipaid.pc = "none"
    /\ handler[PollOrder] = "done"
    /\ gateway[PollOrder] # "none"
    /\ info \in check_payment_status(gateway[PollOrder])
    /\ ipaid' = IF info = ErrorInfo THEN [pc |-> "done", msg |-> "check_failed"]
                ELSE IF PaidSucceeded(info) THEN [pc |-> "reconcile", msg |-> "-"]
                ELSE IF info.status \in {"pending", "waiting_for_capture"}
                THEN [pc |-> "done", msg |-> "processing"]
                ELSE IF info.status = "canceled" THEN [pc |-> "done", msg |-> "canceled"]
                ELSE [pc |-> "done", msg |-> "unusual_status"]
    /\ UNCHANGED <<dbVars, gateway, handler, lockVars, tasks, clock, init_balance,
                   total_referrals, poll, hook, gens, starts, styles, batch,
                   registry, holders, circuit, apicalls, wallclock>>

\* checker.process_successful_payment: mark_order_paid in a session of its own
IPaidReconcile ==
    /\ ipaid.pc = "reconcile"
    /\ MopSelect(ClickTask, "i_paid", PollOrder)

\* process_successful_payment returned and the handler edits the message
IPaidAnswer ==
    /\ ipaid.pc = "reconcile"
    /\ tasks[ClickTask].pc = "done"
    /\ ipaid' = [pc |-> "done", msg |-> ClickMessage(ProcessedSuccessfully(ClickTask))]
    /\ UNCHANGED <<dbVars, gateway, handler, lockVars, tasks, clock, init_balance,
                   total_referrals, poll, hook, gens, starts, styles, batch,
                   registry, holders, circuit, apicalls, wallclock>>

\* one purchase, its reconciliation by the webhook and one click on 'I paid'
IPaidNext ==
    \/ \E u \in Buyers, p \in Packages : CreateOrder(PollOrder, u, p)
    \/ IntentCreated(PollOrder)
    \/ GatewaySucceeded(PollOrder)
    \/ GatewayCanceled(PollOrder)
    \/ MopSelect(OtherTask, "webhook", PollOrder)
    \/ \E info \in PaymentInfos : IPaidCheck(info)
    \/ IPaidReconcile
    \/ \E t \in {OtherTask, ClickTask} : MopRefresh(t)
    \/ \E t \in {OtherTask, ClickTask} : MopTrackEvent(t)
    \/ \E t \in {OtherTask, ClickTask} : MopReferral(t)
    \/ IPaidAnswer

IPaidSpec == Init /\ [][IPaidNext]_vars

----------------------------------------------------------------------------
(* Credit-consuming work: confirm_gen and process_batch_images.  Neither     *)
(* handler (nor any other caller under app/) enters                           *)
(* user_processing_lock.acquire of app/utils/locks.py.                        *)

\* "if user.images_remaining < 1": not enough credits
InsufficientBalance(bal) == bal < 1

\* update_user_images_count: UPDATE users SET images_remaining =
\* images_remaining + delta; commit
update_user_images_count(us, user_id, delta) ==
    [us EXCEPT ![user_id].images_remaining = @ + delta]

\* confirm_gen: get_or_create_user and the balance test
ConfirmGenCheck(g, u) ==
    /\ gens[g].pc = "idle"
    /\ g > 1 => gens[g - 1].pc # "idle"
    /\ gens' = [gens EXCEPT ![g] =
                  IF InsufficientBalance(users[u].images_remaining)
                  THEN [pc |-> "done", user |-> u, ret |-> "refused"]
                  ELSE [pc |-> "generating", user |-> u, ret |-> "-"]]
    /\ UNCHANGED <<dbVars, gateway, handler, lockVars, tasks, clock, init_balance,
                   total_referrals, poll, hook, starts,
                   styles, batch, ipaid, registry, holders, circuit, apicalls, wallclock>>

\* image_processor.generate_photoshoot returned: on failure the handler
\* returns without deducting
ConfirmGenGenerated(g, success) ==
    /\ gens[g].pc = "generating"
    /\ gens' = [gens EXCEPT ![g].pc = IF success THEN "deduct" ELSE "done",
                            ![g].ret = IF success THEN "-" ELSE "failed"]
    /\ UNCHANGED <<dbVars, gateway, handler, lockVars, tasks, clock, init_balance,
                   total_referrals, poll, hook, starts,
                   styles, batch, ipaid, registry, holders, circuit, apicalls, wallclock>>

\* "await update_user_images_count(session, user.id, -1)"
ConfirmGenDeduct(g) ==
    /\ gens[g].pc = "deduct"
    /\ RowLockFree(userLock[gens[g].user], NoTask)
    /\ users' = update_user_images_count(users, gens[g].user, -1)
    /\ gens' = [gens EXCEPT ![g].pc = "done", ![g].ret = "generated"]
    /\ UNCHANGED <<orders, referral_rewards, gateway, handler, lockVars, tasks, clock,
                   init_balance, total_referrals, poll, hook, starts,
                   styles, batch, ipaid, registry, holders, circuit, apicalls, wallclock>>

\* batch_style_process_photos, one iteration: session.refresh(user) and
\* "if user.images_remaining < 1: ... break"
StyleRefresh(b, u) ==
    /\ styles[b].pc = "idle"
    /\ b > 1 => styles[b - 1].pc # "idle"
    /\ styles' = [styles EXCEPT ![b] =
                    IF InsufficientBalance(users[u].images_remaining)
                    THEN [IdleStyler EXCEPT !.pc = "done", !.user = u, !.ret = "refused"]
                    ELSE [IdleStyler EXCEPT !.pc = "generating", !.user = u,
                                !.images_remaining = users[u].images_remaining]]
    /\ UNCHANGED <<dbVars, gateway, handler, lockVars, tasks, clock, init_balance,
                   total_referrals, poll, hook, gens, starts, batch, ipaid,
                   registry, holders, circuit, apicalls, wallclock>>

\* image_processor.generate_photoshoot returned: "if not res['success']: ...
\* continue" deducts nothing
StyleGenerated(b, success) ==
    /\ styles[b].pc = "generating"
    /\ styles' = [styles EXCEPT ![b].pc = IF success THEN "deduct" ELSE "done",
                                ![b].ret = IF success THEN "-" ELSE "failed"]
    /\ UNCHANGED <<dbVars, gateway, handler, lockVars, tasks, clock, init_balance,
                   total_referrals, poll, hook, gens, starts, batch, ipaid,
                   registry, holders, circuit, apicalls, wallclock>>

\* "user.images_remaining -= 1; await session.commit()": the flush writes the
\* value computed from the balance the refresh loaded
StyleDeduct(b) ==
    /\ styles[b].pc = "deduct"
    /\ RowLockFree(userLock[styles[b].user], NoTask)
    /\ users' = [users EXCEPT ![styles[b].user].images_remaining =
                                 styles[b].images_remaining - 1]
    /\ styles' = [styles EXCEPT ![b].pc = "done", ![b].images_remaining = 0,
                                ![b].ret = "generated"]
    /\ UNCHANGED <<orders, referral_rewards, gateway, handler, lockVars, tasks, clock,
                   init_balance, total_referrals, poll, hook, gens, starts, batch, ipaid,
                   registry, holders, circuit, apicalls, wallclock>>

\* process_batch_images(message, user_id, images, total_images) for one user
\* and NImages images, with no other activity on the user
BatchUser == 1

\* "if balance['total'] == 0"
BalanceExhausted(total) == total = 0

\* "'is_free_image' in locals()": the name is bound once any iteration has
\* returned from check_and_reserve_balance
RollbackAttempted(has_is_free, reserved) == has_is_free

\* the call: get_or_create_user, then the loop over the images
BatchStart ==
    /\ batch.pc = "none"
    /\ batch' = [IdleBatch EXCEPT !.pc = "balance"]
    /\ UNCHANGED <<dbVars, gateway, handler, lockVars, tasks, clock, init_balance,
                   total_referrals, poll, hook, gens, starts, styles, ipaid,
                   registry, holders, circuit, apicalls, wallclock>>

\* get_user_balance in a session of its own, and the test of the total; a
\* database error raises into "except Exception"
BatchGetBalance(raised) ==
    /\ batch.pc = "balance"
    /\ batch' = [batch EXCEPT !.pc =
                    IF raised THEN "except"
                    ELSE IF BalanceExhausted(users[BatchUser].images_remaining)
                    THEN "notify" ELSE "reserve"]
    /\ UNCHANGED <<dbVars, gateway, handler, lockVars, tasks, clock, init_balance,
                   total_referrals, poll, hook, gens, starts, styles, ipaid,
                   registry, holders, circuit, apicalls, wallclock>>

\* check_and_reserve_balance in a session of its own (SELECT ... FOR UPDATE,
\* images_remaining -= 1, commit); "if not success: ... break" after a message
BatchReserve(raised) ==
    /\ batch.pc = "reserve"
    /\ RowLockFree(userLock[BatchUser], NoTask)
    /\ IF raised
       THEN /\ batch' = [batch EXCEPT !.pc = "except"]
            /\ users' = users
       ELSE IF ReserveRefused(BatchUser)
       THEN /\ batch' = [batch EXCEPT !.pc = "notify", !.has_is_free = TRUE]
            /\ users' = users
       ELSE /\ batch' = [batch EXCEPT !.pc = "work", !.has_is_free = TRUE,
                                      !.reserved = TRUE]
            /\ users' = [users EXCEPT ![BatchUser].images_remaining = @ - 1]
    /\ UNCHANGED <<orders, referral_rewards, gateway, handler, lockVars, tasks, clock,
                   init_balance, total_referrals, poll, hook, gens, starts, styles, ipaid,
                   registry, holders, circuit, apicalls, wallclock>>

\* message.answer before "break" (balance exhausted, reservation refused): a
\* Telegram error raises into "except Exception" and the break is not reached
BatchNotify(raised) ==
    /\ batch.pc = "notify"
    /\ batch' = [batch EXCEPT !.pc = IF raised THEN "except" ELSE "summary"]
    /\ UNCHANGED <<dbVars, gateway, handler, lockVars, tasks, clock, init_balance,
                   total_referrals, poll, hook, gens, starts, styles, ipaid,
                   registry, holders, circuit, apicalls, wallclock>>

\* the unit of work: bot.get_file, bot.download_file, then
\* processor.process_image(...).  ImageProcessor (services/image_processor.py)
\* defines no process_image, so the attribute lookup raises AttributeError when
\* the download has not raised before; the branches on result['success'] are
\* not reached
BatchWork ==
    /\ batch.pc = "work"
    /\ batch' = [batch EXCEPT !.pc = "except", !.work = "failed"]
    /\ UNCHANGED <<dbVars, gateway, handler, lockVars, tasks, clock, init_balance,
                   total_referrals, poll, hook, gens, starts, styles, ipaid,
                   registry, holders, circuit, apicalls, wallclock>>

\* "except Exception: failed_count += 1; try: if 'is_free_image' in locals():
\* rollback_balance(...) except: pass", then the next image; rollback_balance
\* (images_remaining += 1, commit) can fail itself, which is swallowed
BatchExcept(rollback_ok) ==
    /\ batch.pc = "except"
    /\ RowLockFree(userLock[BatchUser], NoTask)
    /\ LET called == RollbackAttempted(batch.has_is_free, batch.reserved) IN
         /\ users' = IF called /\ rollback_ok
                      THEN [users EXCEPT ![BatchUser].images_remaining = @ + 1]
                      ELSE users
         /\ batch' = [batch EXCEPT !.pc = IF batch.idx < NImages THEN "balance"
                                                                 ELSE "summary",
                                   !.idx = @ + 1,
                                   !.reserved = FALSE,
                                   !.work = "-",
                                   !.rollbacks = IF called THEN @ + 1 ELSE @,
                                   !.failed_count = @ + 1]
    /\ UNCHANGED <<orders, referral_rewards, gateway, handler, lockVars, tasks, clock,
                   init_balance, total_referrals, poll, hook, gens, starts, styles, ipaid,
                   registry, holders, circuit, apicalls, wallclock>>

BatchNext ==
    \/ BatchStart
    \/ \E raised \in BOOLEAN : BatchGetBalance(raised)
    \/ \E raised \in BOOLEAN : BatchReserve(raised)
    \/ \E raised \in BOOLEAN : BatchNotify(raised)
    \/ BatchWork
    \/ \E rollback_ok \in BOOLEAN : BatchExcept(rollback_ok)

BatchSpec == Init /\ [][BatchNext]_vars

\* generations and batch images of the users, as the dispatcher runs them; the
\* unit of work of a batch image always fails (see BatchWork) and is rolled back
WorkNext ==
    \/ \E g \in Gens, u \in Buyers : ConfirmGenCheck(g, u)
    \/ \E g \in Gens, success \in BOOLEAN : ConfirmGenGenerated(g, success)
    \/ \E g \in Gens : ConfirmGenDeduct(g)
    \/ \E t \in Tasks, u \in Users \cup {MissingUser} : ReserveSelect(t, u)
    \/ \E t \in Tasks : ReserveCommit(t)
    \/ \E t \in Tasks : RollbackSelect(t)
    \/ \E t \in Tasks : RollbackCommit(t)

WorkSpec == Init /\ [][WorkNext]_vars

\* the consumption paths that test the balance before the generation and
\* deduct after it, as the dispatcher runs the requests of one user
ConsumeNext ==
    \/ \E g \in Gens, u \in Buyers : ConfirmGenCheck(g, u)
    \/ \E g \in Gens, success \in BOOLEAN : ConfirmGenGenerated(g, success)
    \/ \E g \in Gens : ConfirmGenDeduct(g)
    \/ \E b \in Stylers, u \in Buyers : StyleRefresh(b, u)
    \/ \E b \in Stylers, success \in BOOLEAN : StyleGenerated(b, success)
    \/ \E b \in Stylers : StyleDeduct(b)

ConsumeSpec == Init /\ [][ConsumeNext]_vars

----------------------------------------------------------------------------
(* /start with a referral code: cmd_start *)

\* command.args.replace("ref_", ""): the referral code is a string; the codes
\* followed are the strings of the digits 0, 1, 2 up to MaxCodeLen characters
\* (the only codes referral_handler hands out are str(telegram_id)); they name
\* the users 1 and 2, with and without a leading zero, and ids without a row
ReferralCodes == UNION {[1..n -> 0..2] : n \in 1..MaxCodeLen}

\* str(user.telegram_id): the decimal digits without leading zeros (the ids
\* of the model have one digit)
str_telegram_id(telegram_id) == <<telegram_id>>

\* int(referral_code), taken when referral_code.isdigit(): leading zeros are
\* ignored
RECURSIVE int_referral_code(_)
int_referral_code(referral_code) ==
    IF referral_code = <<>> THEN 0
    ELSE 10 * int_referral_code(SubSeq(referral_code, 1, Len(referral_code) - 1))
            + referral_code[Len(referral_code)]

\* "if referral_code and not user.referred_by_id and
\*  str(user.telegram_id) != referral_code"
MayLink(referred_by_id, user_id, referral_code) ==
    referred_by_id = NoUser /\ str_telegram_id(user_id) # referral_code

\* select(User).where(User.referral_code == referral_code), and when no row
\* matches select(User).where(User.telegram_id == int(referral_code)).  The
\* referral_code column is empty or str(telegram_id) (referral_handler), so
\* the first query can only find the row the second finds.
FindReferrer(referral_code) ==
    LET by_code == {u \in Users : str_telegram_id(u) = referral_code}
        by_id   == {u \in Users : u = int_referral_code(referral_code)}
    IN IF by_code # {} THEN CHOOSE u \in by_code : TRUE
       ELSE IF by_id # {} THEN CHOOSE u \in by_id : TRUE
       ELSE NoUser

\* get_or_create_user(session, ...) reads the user's row; the referral code of
\* the deep link is any string of digits
StartGetUser(s, referral_code) ==
    /\ starts[s].pc = "idle"
    /\ s > 1 => starts[s - 1].pc # "idle"
    /\ starts' = [starts EXCEPT ![s] =
                    IF MayLink(users[StartUser].referred_by_id, StartUser, referral_code)
                    THEN [IdleStart EXCEPT !.pc = "find", !.code = referral_code]
                    ELSE [IdleStart EXCEPT !.pc = "done", !.ret = "skipped"]]
    /\ UNCHANGED <<dbVars, gateway, handler, lockVars, tasks, clock, init_balance,
                   total_referrals, poll, hook, gens,
                   styles, batch, ipaid, registry, holders, circuit, apicalls, wallclock>>

\* select(User).where(User.referral_code == referral_code), else by telegram_id:
\* loads the referrer's row into the session
StartFindReferrer(s) ==
    /\ starts[s].pc = "find"
    /\ LET referrer == FindReferrer(starts[s].code) IN
         starts' = [starts EXCEPT ![s] =
                       IF referrer \in Users
                       THEN [@ EXCEPT !.pc = "commit",
                                      !.code = <<>>,
                                      !.referrer = referrer,
                                      !.total_referrals = total_referrals[referrer],
                                      !.images_remaining = users[referrer].images_remaining]
                       ELSE [IdleStart EXCEPT !.pc = "done", !.ret = "no_referrer"]]
    /\ UNCHANGED <<dbVars, gateway, handler, lockVars, tasks, clock, init_balance,
                   total_referrals, poll, hook, gens,
                   styles, batch, ipaid, registry, holders, circuit, apicalls, wallclock>>

\* user.referred_by_id = referrer.id; referrer.total_referrals += 1;
\* referrer.images_remaining += REFERRAL_REWARD_START; session.commit(): the
\* flush writes the values computed from the rows as the session loaded them
StartCommit(s) ==
    /\ starts[s].pc = "commit"
    /\ LET referrer == starts[s].referrer IN
         /\ RowLockFree(userLock[StartUser], NoTask)
         /\ RowLockFree(userLock[referrer], NoTask)
         /\ users' = [users EXCEPT ![StartUser].referred_by_id = referrer,
                                   ![referrer].images_remaining =
                                       starts[s].images_remaining + REFERRAL_REWARD_START]
         /\ total_referrals' = [total_referrals EXCEPT
                                   ![referrer] = starts[s].total_referrals + 1]
    /\ starts' = [starts EXCEPT ![s] = [IdleStart EXCEPT !.pc = "done",
                                                         !.referrer = starts[s].referrer,
                                                         !.ret = "rewarded"]]
    /\ UNCHANGED <<orders, referral_rewards, gateway, handler, lockVars, tasks, clock,
                   init_balance, poll, hook, gens,
                   styles, batch, ipaid, registry, holders, circuit, apicalls, wallclock>>

\* the /start requests of one user, as the dispatcher runs them
StartNext ==
    \/ \E s \in Starts, referral_code \in ReferralCodes :
          StartGetUser(s, referral_code)
    \/ \E s \in Starts : StartFindReferrer(s)
    \/ \E s \in Starts : StartCommit(s)

StartSpec == Init /\ [][StartNext]_vars

\* PurchaseTask reconciles the orders of the referred buyer
PurchaseTask == 1

\* both referral grants: /start requests with a referral code, and the
\* buyer's orders reaching reconciliation by one mark_order_paid call each
ReferralNext ==
    \/ \E s \in Starts, referral_code \in ReferralCodes :
          StartGetUser(s, referral_code)
    \/ \E s \in Starts : StartFindReferrer(s)
    \/ \E s \in Starts : StartCommit(s)
    \/ \E o \in Orders, u \in Buyers, p \in Packages : CreateOrder(o, u, p)
    \/ \E o \in Orders : IntentCreated(o)
    \/ \E o \in Orders : GatewaySucceeded(o)
    \/ \E o \in Orders : MopSelect(PurchaseTask, "webhook", o)
    \/ MopRefresh(PurchaseTask)
    \/ MopTrackEvent(PurchaseTask)
    \/ MopReferral(PurchaseTask)

ReferralSpec == Init /\ [][ReferralNext]_vars

----------------------------------------------------------------------------
(* The lock registry: UserProcessingLock of app/utils/locks.py.  The tasks   *)
(* run on one asyncio event loop: a task is suspended only at an await that  *)
(* cannot complete at once, and "async with" on a free asyncio.Lock does not *)
(* suspend, so the code between two suspensions is one step.                 *)

\* seconds between two observations of time.time()
LockTickSeconds == 150

\* time passes
Tick(seconds, until) ==
    /\ wallclock + seconds <= until
    /\ wallclock' = wallclock + seconds
    /\ UNCHANGED <<dbVars, gateway, handler, lockVars, tasks, clock, init_balance,
                   total_referrals, poll, hook, gens, starts, styles, batch, ipaid,
                   registry, holders, circuit, apicalls>>

\* "if wallclock - self._last_cleanup < self._cleanup_interval: return"
CleanupDue(reg, t) == ~(t - reg.last_cleanup < cleanup_interval)

\* to_remove: the users with a timestamp older than cleanup_interval that are
\* not processing
to_remove(reg, t) ==
    {u \in Users : /\ reg.lock_timestamps[u] # NoTimestamp
                    /\ t - reg.lock_timestamps[u] > cleanup_interval
                    /\ u \notin reg.processing}

\* "if user_id in self._locks and not self._locks[user_id].locked()"
Unused(reg, u) == reg.locks[u] = "unlocked"

\* _cleanup_old_locks: deletes the lock and the timestamp of the users of
\* to_remove whose lock is in _locks and unlocked, and sets _last_cleanup
cleanup_old_locks(reg, t) ==
    IF ~CleanupDue(reg, t) THEN reg
    ELSE LET removed == {u \in to_remove(reg, t) : Unused(reg, u)} IN
           [reg EXCEPT !.locks = [u \in Users |->
                                     IF u \in removed THEN "absent" ELSE reg.locks[u]],
                       !.lock_timestamps = [u \in Users |->
                                     IF u \in removed THEN NoTimestamp
                                                       ELSE reg.lock_timestamps[u]],
                       !.last_cleanup = t]

\* "if user_id in self._processing: raise RuntimeError"
NoRejectMutant(reg, u) == FALSE
AlreadyProcessing(reg, u) == u \in reg.processing

\* acquire(user_id) up to its first suspension: the cleanup, then under
\* _main_lock the processing test, the lazy creation of the user's lock, the
\* processing mark and the timestamp, then "async with lock": the task is
\* inside the context when the lock is free and waits for it otherwise
LockAcquire(h, u) ==
    /\ holders[h].pc = "idle"
    /\ LET cleaned == cleanup_old_locks(registry, wallclock) IN
         IF AlreadyProcessing(cleaned, u)
         THEN /\ registry' = cleaned
              /\ holders' = [holders EXCEPT ![h] = [pc |-> "raised", user |-> u,
                                                    ret |-> "RuntimeError"]]
         ELSE LET free == cleaned.locks[u] # "locked" IN
              /\ registry' = [cleaned EXCEPT !.locks[u] = "locked",
                                             !.processing = @ \cup {u},
                                             !.lock_timestamps[u] = wallclock]
              /\ holders' = [holders EXCEPT ![h] = [pc |-> IF free THEN "inside"
                                                                   ELSE "waiting",
                                                    user |-> u, ret |-> "-"]]
    /\ UNCHANGED <<dbVars, gateway, handler, lockVars, tasks, clock, init_balance,
                   total_referrals, poll, hook, gens, starts, styles, batch, ipaid,
                   circuit, apicalls, wallclock>>

\* the caller of a rejected acquire has handled the RuntimeError
LockRejected(h) ==
    /\ holders[h].pc = "raised"
    /\ holders' = [holders EXCEPT ![h] = IdleHolder]
    /\ UNCHANGED <<dbVars, gateway, handler, lockVars, tasks, clock, init_balance,
                   total_referrals, poll, hook, gens, starts, styles, batch, ipaid,
                   registry, circuit, apicalls, wallclock>>

\* "if user_id in self._locks and user_id not in self._processing:
\*      if not self._locks[user_id].locked(): del self._locks[user_id]"
KeepLockMutant(reg, u) == FALSE
Evict(reg, u) == reg.locks[u] # "absent" /\ u \notin reg.processing /\ Unused(reg, u)

\* the body of the context ends, by return or by an exception (how): the lock
\* is released (a task waiting for it gets it), then "finally" under
\* _main_lock discards the processing mark, sets the timestamp and deletes the
\* lock when it is unused
LockRelease(h, how) ==
    /\ holders[h].pc = "inside"
    /\ LET u == holders[h].user
           waiting == {w \in Holders : holders[w].pc = "waiting" /\ holders[w].user = u}
           released == [registry EXCEPT
                           !.locks[u] = IF waiting = {} THEN "unlocked" ELSE "locked",
                           !.processing = @ \ {u},
                           !.lock_timestamps[u] = wallclock]
       IN /\ registry' = IF Evict(released, u)
                         THEN [released EXCEPT !.locks[u] = "absent"]
                         ELSE released
          /\ holders' = [w \in Holders |->
                            IF w = h THEN [pc |-> "idle", user |-> NoUser, ret |-> how]
                            ELSE IF waiting # {} /\ w = CHOOSE x \in waiting : TRUE
                                 THEN [holders[w] EXCEPT !.pc = "inside"]
                                 ELSE holders[w]]
    /\ UNCHANGED <<dbVars, gateway, handler, lockVars, tasks, clock, init_balance,
                   total_referrals, poll, hook, gens, starts, styles, batch, ipaid,
                   circuit, apicalls, wallclock>>

\* tasks entering and leaving the context of their user while time passes
LockNext ==
    \/ \E h \in Holders, u \in Users : LockAcquire(h, u)
    \/ \E h \in Holders : LockRejected(h)
    \/ \E h \in Holders, how \in {"returned", "raised"} : LockRelease(h, how)
    \/ Tick(LockTickSeconds, MaxNow)

LockSpec == Init /\ [][LockNext]_vars

----------------------------------------------------------------------------
(* The retry handler: APIRetryHandler.execute_with_retry of                  *)
(* app/utils/api_retry.py, several calls on one handler and one event loop.  *)
(* _check_circuit, _record_success and _record_failure run under a free      *)
(* asyncio.Lock and do not suspend; a call is suspended while api_call runs  *)
(* and while it sleeps before a retry.                                       *)

\* seconds between two observations of time.time()
ApiTickSeconds == 30

\* _check_circuit raises CircuitBreakerOpen: the circuit is open and
\* "elapsed >= self.circuit_timeout" is false
StillOpen(cb, t) == cb.circuit_open /\ ~(t - cb.circuit_open_time >= circuit_timeout)

\* _record_success
record_success(cb) == [cb EXCEPT !.failure_count = 0, !.circuit_open = FALSE]

\* "if self._failure_count >= self.circuit_failure_threshold"
OpenLateMutant(failure_count) == failure_count > circuit_failure_threshold
ShouldOpen(failure_count) == failure_count >= circuit_failure_threshold

\* _record_failure
record_failure(cb, t) ==
    LET failure_count == cb.failure_count + 1 IN
      IF ShouldOpen(failure_count)
      THEN [failure_count |-> failure_count, circuit_open |-> TRUE, circuit_open_time |-> t]
      ELSE [cb EXCEPT !.failure_count = failure_count]

\* the except clauses that end with "continue": asyncio.TimeoutError and
\* (aiohttp.ClientError, aiohttp.ServerTimeoutError)
RetryAllMutant(outcome) == outcome # "ok"
Retryable(outcome) == outcome \in {"timeout", "client_error"}

\* execute_with_retry up to its first suspension: _check_circuit raises, or
\* closes a circuit whose timeout has elapsed, and the first attempt starts
ApiStart(c) ==
    /\ apicalls[c].pc = "idle"
    /\ IF StillOpen(circuit, wallclock)
       THEN /\ apicalls' = [apicalls EXCEPT ![c] = [IdleCall EXCEPT
                                !.pc = "done", !.ret = "CircuitBreakerOpen"]]
            /\ circuit' = circuit
       ELSE /\ apicalls' = [apicalls EXCEPT ![c] = [IdleCall EXCEPT !.pc = "attempt"]]
            /\ circuit' = [circuit EXCEPT !.circuit_open = FALSE]
    /\ UNCHANGED <<dbVars, gateway, handler, lockVars, tasks, clock, init_balance,
                   total_referrals, poll, hook, gens, starts, styles, batch, ipaid,
                   registry, holders, wallclock>>

\* one await of asyncio.wait_for(api_call(...)) ends, with the result ("ok"),
\* asyncio.TimeoutError, aiohttp.ClientError or any other exception: success
\* records it and returns the result; a timeout or client error with an
\* iteration of "for attempt in range(self.max_retries)" left goes to sleep;
\* any other end leaves the loop, records one failure and raises last_exception
ApiAttempt(c, outcome) ==
    /\ apicalls[c].pc = "attempt"
    /\ LET call == [apicalls[c] EXCEPT !.invoked = @ + 1] IN
         IF outcome = "ok"
         THEN /\ circuit' = record_success(circuit)
              /\ apicalls' = [apicalls EXCEPT ![c] = [call EXCEPT !.pc = "done",
                                                                  !.ret = "result"]]
         ELSE IF Retryable(outcome) /\ call.attempt < max_retries - 1
         THEN /\ circuit' = circuit
              /\ apicalls' = [apicalls EXCEPT ![c] = [call EXCEPT !.pc = "sleep",
                                                       !.last_exception = outcome]]
         ELSE /\ circuit.failure_count < MaxFailures
              /\ circuit' = record_failure(circuit, wallclock)
              /\ apicalls' = [apicalls EXCEPT ![c] = [call EXCEPT !.pc = "done",
                                                       !.last_exception = outcome,
                                                       !.ret = outcome]]
    /\ UNCHANGED <<dbVars, gateway, handler, lockVars, tasks, clock, init_balance,
                   total_referrals, poll, hook, gens, starts, styles, batch, ipaid,
                   registry, holders, wallclock>>

\* asyncio.sleep(delay) is over: "continue" starts the next iteration
ApiWake(c) ==
    /\ apicalls[c].pc = "sleep"
    /\ apicalls' = [apicalls EXCEPT ![c].pc = "attempt", ![c].attempt = @ + 1]
    /\ UNCHANGED <<dbVars, gateway, handler, lockVars, tasks, clock, init_balance,
                   total_referrals, poll, hook, gens, starts, styles, batch, ipaid,
                   registry, holders, circuit, wallclock>>

\* the caller has taken the result or the exception of the call
ApiReturn(c) ==
    /\ apicalls[c].pc = "done"
    /\ apicalls' = [apicalls EXCEPT ![c] = IdleCall]
    /\ UNCHANGED <<dbVars, gateway, handler, lockVars, tasks, clock, init_balance,
                   total_referrals, poll, hook, gens, starts, styles, batch, ipaid,
                   registry, holders, circuit, wallclock>>

\* the calls of one handler while time passes
ApiNext ==
    \/ \E c \in ApiCalls : ApiStart(c)
    \/ \E c \in ApiCalls, outcome \in {"ok", "timeout", "client_error", "unexpected"} :
          ApiAttempt(c, outcome)
    \/ \E c \in ApiCalls : ApiWake(c)
    \/ \E c \in ApiCalls : ApiReturn(c)
    \/ Tick(ApiTickSeconds, MaxCircuitNow)

ApiSpec == Init /\ [][ApiNext]_vars

----------------------------------------------------------------------------
(* Observations used by the properties *)

\* the mark_order_paid calls that found order o
MopCalls(o) == {t \in Tasks : tasks[t].op = "mark_order_paid" /\ tasks[t].order = o}
\* ... that returned the Order (performed the transition to paid)
Winners(o) == {t \in MopCalls(o) : tasks[t].ret = "Order"}
\* ... whose grant to the buyer has been committed
Granted(o) == {t \in MopCalls(o) : tasks[t].granted}
\* the refund_order calls on order o that returned the Order
Refunds(o) == {t \in Tasks : tasks[t].op = "refund_order" /\ tasks[t].order = o
                             /\ tasks[t].ret = "Order"}
\* the check_and_reserve_balance calls of user u
Reserves(u) == {t \in Tasks : tasks[t].op = "reserve" /\ tasks[t].user = u}
\* the referral_purchase rows of order o
PurchaseRewards(o) == {i \in DOMAIN referral_rewards :
                          /\ referral_rewards[i].reward_type = "referral_purchase"
                          /\ referral_rewards[i].order_id = o}
\* floor(a / b) for a >= 0, b > 0, stated without integer division
Floor(a, b) == CHOOSE n \in 0..a : b * n <= a /\ a < b * (n + 1)
AllDone == \A t \in Tasks : tasks[t].pc = "done"

----------------------------------------------------------------------------
(* Properties *)

\* C1: when the webhook handler, the poll task and the 'I paid' handler all call
\* mark_order_paid for the invoice of one pending order, then whatever the
\* interleaving exactly one call performs the transition and returns the order,
\* every other call returns None, and the buyer's balance has grown by the
\* package's credits exactly once.
C1_ExactlyOneReconcile ==
    \A o \in Orders :
        (Tasks = MopCalls(o) /\ AllDone)
            => /\ Cardinality(Winners(o)) = 1
               /\ \A t \in MopCalls(o) \ Winners(o) : tasks[t].ret = "None" /\ ~tasks[t].granted
               /\ users[orders[o].user_id].images_remaining
                    = init_balance[orders[o].user_id] + photoshoots_count(orders[o].package_id)

\* C2: images_remaining >= 0 for every user in every reachable state, under any
\* interleaving of reserve, rollback and the grant of mark_order_paid.
C2_BalanceNonNegative == \A u \in Users : users[u].images_remaining >= 0

\* C2 witness: a reservation that was kept, a reservation that was rolled back
\* and a grant have all been committed for user 1.
C2_Witness ==
    /\ \E t \in Tasks : tasks[t].op = "reserve" /\ tasks[t].user = 1 /\ tasks[t].rolled_back
    /\ \E t \in Tasks : tasks[t].op = "reserve" /\ tasks[t].user = 1
                        /\ tasks[t].pc = "reserved"
    /\ \E t \in Tasks : tasks[t].op = "mark_order_paid" /\ tasks[t].granted
                        /\ tasks[t].user = 1

\* C3: when the only calls are N check_and_reserve_balance calls for one user
\* whose balance is B < N, then once all have returned exactly B returned
\* success, N - B returned failure and the balance is 0.
C3_ExactlyBReservationsSucceed ==
    \A u \in Users :
        LET R == Reserves(u)
            B == init_balance[u]
        IN  (/\ \A t \in Tasks : tasks[t].pc = "idle" \/ t \in R
             /\ \A t \in R : tasks[t].pc \in {"reserved", "done"} /\ ~tasks[t].rolled_back
             /\ B < Cardinality(R))
            => /\ Cardinality({t \in R : tasks[t].ret = "True"}) = B
               /\ Cardinality({t \in R : tasks[t].ret = "False"}) = Cardinality(R) - B
               /\ users[u].images_remaining = 0

\* C3 witness: three reservations against balance 1: one succeeded, two failed.
C3_Witness ==
    /\ init_balance[1] = 1
    /\ Reserves(1) = Tasks
    /\ Cardinality({t \in Tasks : tasks[t].ret = "True"}) = 1
    /\ Cardinality({t \in Tasks : tasks[t].ret = "False"}) = 2
    /\ users[1].images_remaining = 0

\* C4: a mark_order_paid call whose invoice_id matches no order, or whose order
\* is already paid, returns None and changes nothing: no order row, no balance
\* and no ReferralReward row differs before and after the call.
C4_DuplicateReconcileIsNoOp ==
    [][\A t \in Tasks :
          (tasks[t].pc = "idle" /\ tasks'[t].op = "mark_order_paid")
             => LET o == tasks'[t].order IN
                  (o = NoOrder \/ orders[o].status = "paid")
                     => /\ tasks'[t].pc = "done"
                        /\ tasks'[t].ret = "None"
                        /\ ~tasks'[t].granted
                        /\ users' = users
                        /\ orders' = orders
                        /\ referral_rewards' = referral_rewards]_vars

\* C4 witness: one call found no order, another found the order already paid;
\* both returned None and the balance still holds exactly one grant.
C4_Witness ==
    /\ \E t \in Tasks : tasks[t].op = "mark_order_paid" /\ tasks[t].order = NoOrder
                        /\ tasks[t].ret = "None"
    /\ \E o \in Orders :
         /\ orders[o].status = "paid"
         /\ Cardinality(Winners(o)) = 1
         /\ \E t \in MopCalls(o) : tasks[t].ret = "None"
         /\ users[orders[o].user_id].images_remaining
              = init_balance[orders[o].user_id] + photoshoots_count(orders[o].package_id)

\* C5: over any sequence of mark_order_paid, cancel_order and refund_order calls
\* on one order, the order enters paid at most once, paid_at is assigned at most
\* once and the buyer receives the grant at most once.
C5_PaidAtMostOnce ==
    \A o \in Orders :
        /\ Cardinality(Winners(o)) <= 1
        /\ Cardinality(Granted(o)) <= 1
        /\ \A t \in Winners(o) : orders[o].paid_at # 0 => tasks[t].paid_at = orders[o].paid_at

\* C6: the order status only moves along pending->paid, paid->refunded,
\* pending->cancelled and pending->failed (and from not existing to pending at
\* creation): nothing leaves paid except to refunded, nothing leaves cancelled,
\* refunded or failed.
AllowedTransitions ==
    {<<"absent", "pending">>, <<"pending", "paid">>, <<"paid", "refunded">>,
     <<"pending", "cancelled">>, <<"pending", "failed">>}

C6_StatusMovesForward ==
    [][\A o \in Orders :
          orders'[o].status # orders[o].status
             => <<orders[o].status, orders'[o].status>> \in AllowedTransitions]_vars

\* C7: refund_order succeeds only from status paid; a second refund of the same
\* order returns None, so the package is deducted for an order at most once.
C7_RefundAtMostOnce == \A o \in Orders : Cardinality(Refunds(o)) <= 1

\* C8: a successful refund_order of an order whose package grants k credits
\* leaves the buyer's balance at max(0, b - k), b being the balance the call
\* read (the balance just before the refund when no other transaction commits
\* in between); the balance is not negative and the status becomes refunded.
C8_RefundDeductsClamped ==
    [][\A t \in Tasks :
          (tasks[t].pc = "refund_commit" /\ tasks'[t].pc = "done")
             => LET o == tasks[t].order
                    u == orders[o].user_id
                    k == photoshoots_count(orders[o].package_id)
                IN /\ users'[u].images_remaining = Max(0, tasks[t].bal - k)
                   /\ users[u].images_remaining = tasks[t].bal
                        => users'[u].images_remaining = Max(0, users[u].images_remaining - k)
                   /\ users'[u].images_remaining >= 0
                   /\ orders'[o].status = "refunded"
                   /\ tasks'[t].ret = "Order"]_vars

\* C8 witness: the buyer started at 0, was granted a package, consumed one
\* credit and was refunded: the deduction was clamped at 0.
C8_Witness ==
    /\ init_balance[1] = 0
    /\ \E t \in Tasks : tasks[t].op = "reserve" /\ tasks[t].user = 1 /\ tasks[t].pc = "reserved"
    /\ \E o \in Orders : orders[o].status = "refunded" /\ Refunds(o) # {}
    /\ users[1].images_remaining = 0

\* C9: the reconciling mark_order_paid call of a buyer who has a referrer adds
\* floor(credits * REFERRAL_REWARD_PURCHASE_PERCENT / 100) to the referrer's
\* balance and, when that amount is > 0, appends exactly one ReferralReward row
\* (referral_purchase, that amount, that order id); when the amount is 0 or the
\* buyer has no referrer, no row is appended and no other user's balance changes.
C9_ReferralPurchaseReward ==
    [][\A t \in Tasks :
          (tasks[t].pc = "mop_referral" /\ tasks'[t].pc = "done")
             => LET o == tasks[t].order
                    u == orders[o].user_id
                    ref == users[u].referred_by_id
                    amount == Floor(photoshoots_count(orders[o].package_id)
                                      * REFERRAL_REWARD_PURCHASE_PERCENT, 100)
                IN IF ref # NoUser /\ amount > 0
                   THEN /\ users'[ref].images_remaining = users[ref].images_remaining + amount
                        /\ referral_rewards' = Append(referral_rewards,
                              [user_id |-> ref, referred_user_id |-> u, order_id |-> o,
                               reward_type |-> "referral_purchase",
                               images_rewarded |-> amount])
                   ELSE /\ referral_rewards' = referral_rewards
                        /\ \A u2 \in Users \ {u} : users'[u2] = users[u2]]_vars

\* C9 witness: the referred user 1 paid the package of 10: referrer 2 holds one
\* more credit and there is exactly one referral_purchase row of 1 credit.
C9_Witness ==
    /\ \E o \in Orders : Winners(o) # {} /\ orders[o].package_id = 2
                         /\ PurchaseRewards(o) = {1}
    /\ Len(referral_rewards) = 1
    /\ referral_rewards[1].images_rewarded = 1
    /\ referral_rewards[1].user_id = 2
    /\ users[2].images_remaining = init_balance[2] + 1

\* C10: at most one ReferralReward row of type referral_purchase per order id,
\* under any interleaving of reconcile calls and refunds.
C10_OneRewardPerOrder == \A o \in Orders : Cardinality(PurchaseRewards(o)) <= 1

\* the cumulative delay after which the k-th status check is scheduled
ScheduledDelay(k) ==
    IF k = 1 THEN 60 ELSE IF k = 2 THEN 90 ELSE IF k = 3 THEN 150 ELSE 150 + 30 * (k - 3)
\* the largest number of status checks the schedule allows within the budget
MaxChecks == Len(check_intervals) + (max_duration - ScheduledDelay(3)) \div 30

\* C11: auto_check_payment returns 'succeeded' only after a check reported
\* succeeded with paid = true and it then called reconciliation once and stopped;
\* it returns 'canceled' at the first check that reports canceled; otherwise it
\* returns None. A run that returned None or 'canceled' made no reconciliation
\* call and changed no balance and no order status.
C11_AutoCheckOutcome ==
    /\ poll.pc = "returned" => poll.ret \in {"succeeded", "canceled", "None"}
    /\ poll.calls > 0 => poll.calls = 1 /\ poll.last = "succeeded"
    /\ poll.ret = "succeeded"
         => /\ poll.last = "succeeded"
            /\ poll.calls = 1
            /\ tasks[PollTask].op = "mark_order_paid" /\ tasks[PollTask].pc = "done"
    /\ poll.last = "canceled" <=> poll.ret = "canceled"
    /\ (poll.pc = "returned" /\ poll.last \notin {"succeeded", "canceled"})
         => poll.ret = "None"
    /\ poll.ret \in {"None", "canceled"}
         => /\ poll.calls = 0
            /\ tasks[PollTask] = IdleTask
            /\ \A u \in Users : users[u].images_remaining = init_balance[u]
            /\ orders[PollOrder].status = "pending"
            /\ referral_rewards = <<>>

\* C11 witness: the task saw at least three checks without a terminal status,
\* then succeeded with paid = true, reconciled the order and returned 'succeeded'.
C11_Witness ==
    /\ poll.ret = "succeeded"
    /\ poll.checks >= 4
    /\ orders[PollOrder].status = "paid"
    /\ tasks[PollTask].ret = "Order"

\* C12: counted from task start, the status checks of auto_check_payment are
\* scheduled at cumulative delays of 60 s, 90 s, 150 s and then every 30 s, and
\* no status check (hence no reconciliation) is performed after the wall-clock
\* budget max_duration_minutes has elapsed.
C12_ScheduleWithinBudget ==
    /\ poll.pc = "check" => poll.slept = ScheduledDelay(poll.checks + 1)
    /\ ~poll.late

\* C13: every auto_check_payment task terminates: whatever the gateway answers
\* (pending for ever, a failing status check for ever), the task performs a
\* bounded number of checks and eventually returns.
C13_AutoCheckTerminates ==
    /\ [](poll.checks <= MaxChecks)
    /\ (poll.pc = "sleep") ~> (poll.pc = "returned")

\* C13 witness: the task used the whole schedule and returned None.
C13_Witness ==
    /\ poll.ret = "None"
    /\ poll.checks = MaxChecks
    /\ poll.last \in {"error", "pending"}

\* C14: if the order is pending and a status check of the poll task performed
\* within the budget reports succeeded with paid = true, then the order
\* eventually is paid and the buyer's balance holds the package's credits, with
\* no webhook delivered.
C14_PollEventuallyCredits ==
    (poll.pc = "reconcile" /\ ~poll.late /\ orders[PollOrder].status = "pending")
        ~> (/\ orders[PollOrder].status = "paid"
            /\ users[orders[PollOrder].user_id].images_remaining
                 = init_balance[orders[PollOrder].user_id]
                     + photoshoots_count(orders[PollOrder].package_id))

\* C14 witness: the last status check within the budget reported succeeded;
\* the order is paid and the balance holds the package.
C14_Witness ==
    /\ poll.ret = "succeeded"
    /\ ~poll.late
    /\ poll.elapsed = max_duration
    /\ orders[PollOrder].status = "paid"
    /\ users[1].images_remaining = init_balance[1] + photoshoots_count(orders[PollOrder].package_id)

\* C15: handle_yookassa_webhook answers HTTP 200 for every request: a body that
\* cannot be parsed, a rejected notification, a status other than succeeded, an
\* unknown order, a duplicate for an already paid order, an exception raised
\* while processing.
C15_WebhookAlways200 == \A i \in DOMAIN hook.log : hook.log[i].status = 200

\* C15 witness: three requests were answered: one raised an exception, one
\* reconciled the order, one was the duplicate for the order already paid.
C15_Witness ==
    /\ Len(hook.log) = 3
    /\ \E i \in DOMAIN hook.log : hook.log[i].outcome = "exception"
    /\ \E i, j \in DOMAIN hook.log :
         /\ i < j
         /\ hook.log[i].outcome = "True"
         /\ hook.log[j].outcome = "False" /\ hook.log[j].inv = hook.log[i].inv
         /\ hook.log[j].task \in Tasks
         /\ tasks[hook.log[j].task].ret = "None"
    /\ \A i \in DOMAIN hook.log : hook.log[i].status = 200

\* the units of work of user u that are between their balance check or
\* reservation and their end
GensInFlight(u) == {g \in Gens : gens[g].user = u /\ gens[g].pc \in {"generating", "deduct"}}
BatchInFlight(u) == {t \in Tasks : /\ tasks[t].op = "reserve" /\ tasks[t].user = u
                                   /\ tasks[t].pc \in {"reserve_commit", "reserved",
                                                        "rollback_commit"}}

\* C16: credit-consuming work of one user is serialized: while one generation
\* or batch unit of work of user u is in flight (from its balance check or
\* reservation until it finishes), no second unit of work of u has checked or
\* reserved credits and started processing.
C16_WorkSerializedPerUser ==
    \A u \in Users : Cardinality(GensInFlight(u)) + Cardinality(BatchInFlight(u)) <= 1

\* C17: check_and_reserve_balance for a user whose balance is 0, or for a user
\* that does not exist, returns failure and leaves the balance and all other
\* state unchanged.
C17_RefusedReserveIsNoOp ==
    [][\A t \in Tasks :
          (tasks[t].pc = "idle" /\ tasks'[t].op = "reserve")
             => LET u == tasks'[t].user IN
                  (u \notin Users \/ users[u].images_remaining = 0)
                     => /\ tasks'[t].pc = "done"
                        /\ tasks'[t].ret = "False"
                        /\ users' = users
                        /\ orders' = orders
                        /\ referral_rewards' = referral_rewards
                        /\ userLock' = userLock
                        /\ orderLock' = orderLock]_vars

\* C17 witness: one reservation was refused for a user without a row, another
\* for user 1 whose balance is 0 after its only credit was reserved.
C17_Witness ==
    /\ init_balance[1] = 1
    /\ users[1].images_remaining = 0
    /\ \E t \in Tasks : tasks[t].op = "reserve" /\ tasks[t].user = MissingUser
                        /\ tasks[t].ret = "False"
    /\ \E t \in Tasks : tasks[t].op = "reserve" /\ tasks[t].user = 1 /\ tasks[t].ret = "True"
    /\ \E t \in Tasks : tasks[t].op = "reserve" /\ tasks[t].user = 1 /\ tasks[t].ret = "False"

\* C18: for a starting balance p and a package of k >= 1 credits, the grant of
\* mark_order_paid followed by refund_order of the same order restores p when
\* nothing was consumed in between, and leaves max(0, p - c) when c credits
\* were consumed in between. (Calls do not overlap; task 1 is the grant, task
\* r the refund, the tasks between them the reservations.)
C18_GrantThenRefund ==
    \A o \in Orders, r \in Tasks :
        LET u == orders[o].user_id
            Between == {t \in Tasks : 1 < t /\ t < r}
            c == Cardinality({t \in Between : tasks[t].user = u /\ tasks[t].ret = "True"})
        IN  (/\ r > 1
             /\ tasks[1].op = "mark_order_paid" /\ tasks[1].order = o
             /\ tasks[1].ret = "Order"
             /\ tasks[r].op = "refund_order" /\ tasks[r].order = o
             /\ tasks[r].ret = "Order"
             /\ \A t \in Between : /\ tasks[t].op = "reserve"
                                    /\ tasks[t].pc \in {"reserved", "done"}
                                    /\ ~tasks[t].rolled_back
             /\ \A t \in Tasks : t > r => tasks[t].pc = "idle")
            => /\ users[u].images_remaining = Max(0, init_balance[u] - c)
               /\ c = 0 => users[u].images_remaining = init_balance[u]

\* C18 witness: balance 2, a package granted, one credit consumed, the order
\* refunded: the balance is 1.
C18_Witness ==
    /\ init_balance[1] = 2
    /\ tasks[1].op = "mark_order_paid" /\ tasks[1].ret = "Order"
    /\ tasks[2].op = "reserve" /\ tasks[2].user = 1 /\ tasks[2].ret = "True"
    /\ tasks[3].op = "refund_order" /\ tasks[3].ret = "Order"
    /\ users[1].images_remaining = 1

\* C19: cancel_order changes the status to cancelled only when the order is
\* pending; called on a paid, refunded, cancelled or failed order it is rejected
\* and leaves the order and all balances unchanged.
C19_CancelOnlyPending ==
    [][/\ \A t \in Tasks :
            (/\ tasks[t].pc = "idle" /\ tasks'[t].op = "cancel_order"
             /\ tasks'[t].order # NoOrder
             /\ orders[tasks'[t].order].status # "pending")
               => /\ tasks'[t].pc = "done"
                  /\ tasks'[t].ret = "None"
                  /\ orders' = orders
                  /\ users' = users
       /\ \A o \in Orders :
            (orders[o].status # "cancelled" /\ orders'[o].status = "cancelled")
               => orders[o].status = "pending" /\ users' = users]_vars

\* the /start requests that linked the user and rewarded the referrer
Rewarded == {s \in Starts : starts[s].ret = "rewarded"}

\* C20: the referral_start reward fires once per referred user: over any
\* number of /start requests of one user that carry a referral code, also when
\* two of them are handled concurrently, the referrer link is set once, the
\* referrer's balance grows by REFERRAL_REWARD_START exactly once and the
\* referrer's total_referrals grows by exactly 1.
C20_ReferralStartOnce ==
    \A u \in Users :
        /\ total_referrals[u] = Cardinality({v \in Users : users[v].referred_by_id = u})
        /\ users[u].images_remaining
             = init_balance[u] + (IF \E s \in Rewarded : starts[s].referrer = u
                                  THEN REFERRAL_REWARD_START ELSE 0)

\* a step that grants a referral_start reward to referrer r (cmd_start)
StartGrant(r) ==
    \E s \in Starts : /\ starts[s].pc = "commit"
                      /\ starts[s].referrer = r
                      /\ starts'[s].ret = "rewarded"
\* a step that grants a referral_purchase reward to referrer r (mark_order_paid)
PurchaseGrant(r) ==
    \E t \in Tasks : /\ tasks[t].pc = "mop_referral"
                     /\ tasks'[t].pc = "done"
                     /\ tasks[t].ref = r
                     /\ RewardCount(photoshoots_count(orders[tasks[t].order].package_id)) > 0

\* C21: every referral grant, referral_start as well as referral_purchase,
\* appends exactly one ReferralReward row and increments the referrer's
\* total_referrals by one; no step modifies or deletes an existing
\* ReferralReward row.
C21_ReferralGrantRecorded ==
    [][/\ \A r \in Users :
             (StartGrant(r) \/ PurchaseGrant(r))
                => /\ Len(referral_rewards') = Len(referral_rewards) + 1
                   /\ referral_rewards'[Len(referral_rewards')].user_id = r
                   /\ total_referrals'[r] = total_referrals[r] + 1
       /\ Len(referral_rewards') >= Len(referral_rewards)
       /\ SubSeq(referral_rewards', 1, Len(referral_rewards)) = referral_rewards]_vars

\* C23: a gateway failure during one status check of the poll task is
\* contained: the check (check_payment_status returned None) changes no order,
\* balance or reward row and starts no reconciliation, the task neither
\* returns nor raises, and it goes on to the next sleep of the fixed schedule.
C23_CheckFailureContained ==
    [][(poll.pc = "check" /\ poll'.checks = poll.checks + 1 /\ poll'.last = "error")
          => /\ dbVars' = dbVars
             /\ tasks' = tasks
             /\ poll'.calls = poll.calls
             /\ poll'.ret = "-"
             /\ poll'.pc = IF poll.i < Len(check_intervals) THEN "sleep" ELSE "while"
             /\ poll'.i = IF poll.i <= Len(check_intervals) THEN poll.i + 1 ELSE poll.i
             /\ poll'.elapsed = poll.elapsed]_vars

\* after a failed status check the task has slept and is about to check again
C23_Witness ==
    /\ poll.pc = "check"
    /\ poll.last = "error"
    /\ poll.checks >= 1
    /\ orders[PollOrder].status = "pending"

\* the step in which refund_order call t commits
RefundStep(t) ==
    /\ tasks[t].op = "refund_order"
    /\ tasks[t].pc = "refund_commit"
    /\ tasks'[t].pc = "done"

\* C24: a refund changes only the status of the refunded order and the
\* balance of the buying user: every other order and user row, the referrer's
\* balance, the referrer's total_referrals and all ReferralReward rows are
\* the same after the commit of refund_order as before it.
C24_RefundFrame ==
    [][\A t \in Tasks :
          RefundStep(t)
             => LET o == tasks[t].order
                    u == tasks[t].user
                    ref == users[u].referred_by_id
                IN /\ orders' = [orders EXCEPT ![o].status = "refunded"]
                   /\ users' = [users EXCEPT ![u].images_remaining =
                                                users'[u].images_remaining]
                   /\ ref # NoUser => users'[ref] = users[ref]
                   /\ total_referrals' = total_referrals
                   /\ referral_rewards' = referral_rewards]_vars

\* the order of a referred buyer was refunded after its referral_purchase
\* reward had been granted: the referrer keeps the reward
C24_Witness ==
    /\ \E t \in Tasks : tasks[t].op = "refund_order" /\ tasks[t].ret = "Order"
    /\ users[1].referred_by_id = 2
    /\ Len(referral_rewards) = 1
    /\ users[2].images_remaining = init_balance[2] + referral_rewards[1].images_rewarded
    /\ orders[1].status = "refunded"

\* the credits granted to user u by the committed grants of mark_order_paid
RECURSIVE GrantSum(_, _)
GrantSum(u, os) ==
    IF os = {} THEN 0
    ELSE LET o == CHOOSE x \in os : TRUE
         IN (IF orders[o].user_id = u
             THEN photoshoots_count(orders[o].package_id) * Cardinality(Granted(o))
             ELSE 0) + GrantSum(u, os \ {o})
\* the committed reservations of user u, and those rolled back again
ReservedBy(u) == {t \in Reserves(u) : tasks[t].ret = "True"}
RolledBack(u) == {t \in Reserves(u) : tasks[t].rolled_back}

\* C26: no balance update is lost.  Whenever no call is in flight and no
\* refund has run, the balance of a buyer equals the initial balance plus all
\* committed grants and rollbacks minus all committed reservations, whatever
\* the interleaving of check_and_reserve_balance, rollback_balance and the
\* grant of mark_order_paid was.
C26_NoLostUpdate ==
    \A u \in Buyers :
        (NoCallInFlight /\ \A t \in Tasks : tasks[t].op # "refund_order")
           => users[u].images_remaining
                 = init_balance[u] + GrantSum(u, Orders)
                     + Cardinality(RolledBack(u)) - Cardinality(ReservedBy(u))

\* C27: the balance never drops below zero on the consumption paths that test
\* it before the generation and deduct 1 after it (confirm_gen,
\* batch_style_process_photos), also when two requests of one user with
\* balance 1 run concurrently.
C27_ConsumptionNeverNegative ==
    \A u \in Users : ~(users[u].images_remaining < 0)

\* C25: every Order row is created in status pending, and an order is paid
\* only through mark_order_paid: each paid order has had its package credits
\* granted to its user by a committed reconciliation.
C25_PaidOnlyByReconciliation ==
    \A o \in Orders :
        orders[o].status = "paid"
           => \E t \in Granted(o) : tasks[t].user = orders[o].user_id

\* C22: create_payment_with_contact creates the order pending and starts one
\* poll task for the payment intent the gateway created, after the order's
\* invoice_id was committed as the payment id; the order ends in status failed
\* only when the intent creation failed, and then no poll task runs and no
\* balance has changed.
C22_OnePollPerIntent ==
    /\ handler[PollOrder] = "intent" => orders[PollOrder].status = "pending"
    /\ poll.pc # "none" => /\ gateway[PollOrder] # "none"
                           /\ orders[PollOrder].invoice_id = PollOrder
    /\ (gateway[PollOrder] # "none" /\ handler[PollOrder] \notin {"intent", "done"})
          => poll.pc # "none"
    /\ orders[PollOrder].status = "failed"
          => /\ gateway[PollOrder] = "none"
             /\ poll.pc = "none"
             /\ \A u \in Users : users[u].images_remaining = init_balance[u]

\* C30: when the 'I paid' handler finds the payment succeeded at the gateway
\* and the order already reconciled (its mark_order_paid call returns None),
\* it reports the payment as confirmed, not as a crediting problem, and the
\* click changes no balance.
C30_DuplicateClickConfirmed ==
    (/\ ipaid.pc = "done"
     /\ tasks[ClickTask].op = "mark_order_paid"
     /\ tasks[ClickTask].ret = "None")
       => /\ ipaid.msg = "confirmed"
          /\ ~tasks[ClickTask].granted

\* C28: in process_batch_images, rollback_balance is called at most once per
\* loop iteration and only in an iteration whose check_and_reserve_balance
\* succeeded and whose unit of work then failed; hence, with no other activity
\* on the user, the balance after the batch equals the balance before it
\* minus the number of images reported as processed.
C28_RollbackOnlyAfterReserve ==
    [][/\ batch'.rollbacks <= batch.rollbacks + 1
       /\ batch'.rollbacks = batch.rollbacks + 1
             => batch.reserved /\ batch.work = "failed"
       /\ batch'.pc = "summary"
             => users'[BatchUser].images_remaining
                   = init_balance[BatchUser] - batch'.processed_count]_vars

\* C29: mark_order_paid commits the status flip to paid and the buyer's grant
\* in one commit: the step that makes an order paid also writes the balance
\* read plus the package credits, no committed state has a paid order whose
\* buyer lacks the credits, and a step of mark_order_paid that fails
\* (tracking, referral reward, final commit) changes no committed row, so a
\* committed flip stays.
C29_FlipAndGrantTogether ==
    [][/\ \A o \in AllOrders :
             (orders[o].status # "paid" /\ orders'[o].status = "paid")
                => \E t \in MopCalls(o) :
                      /\ ~tasks[t].granted /\ tasks'[t].granted
                      /\ users'[orders[o].user_id].images_remaining
                            = tasks[t].bal + photoshoots_count(orders[o].package_id)
       /\ \A o \in AllOrders :
             orders'[o].status = "paid"
                => users'[orders'[o].user_id].images_remaining
                      >= init_balance[orders'[o].user_id]
                           + photoshoots_count(orders'[o].package_id)
       /\ \A t \in Tasks :
             (tasks[t].ret # "raised" /\ tasks'[t].ret = "raised")
                => dbVars' = dbVars]_vars

\* C31: process_payment_webhook calls mark_order_paid only for a notification
\* that verify_webhook_notification accepts and whose payment has status
\* succeeded and paid = true; for every other notification it returns False
\* without opening a session, and the request changes no order and no balance.
C31_WebhookReconcilesOnlyPaid ==
    [][/\ (hook' # hook /\ hook'.pc = "mark")
             => /\ hook'.body \notin {"unparseable", "rejected"}
                /\ hook'.body \notin {"not_succeeded"}
                /\ hook'.body # "succeeded_unpaid"
       /\ \A t \in Tasks :
             (tasks[t].pc = "idle" /\ tasks'[t].pc # "idle")
                => /\ hook.pc = "mark" /\ hook.task = t
                   /\ hook.body = "succeeded"
       /\ (hook' # hook /\ "respond" \in {hook.pc, hook'.pc})
             => /\ dbVars' = dbVars
                /\ tasks' = tasks
       /\ (hook' # hook /\ hook.pc = "respond" /\ hook.body # "unparseable")
             => LET answer == hook'.log[Len(hook'.log)] IN
                  /\ answer.body = hook.body
                  /\ answer.outcome = "False"
                  /\ answer.task = NoTask]_vars

\* a notification of a succeeded but unpaid payment and a notification of a
\* pending payment, both naming a pending order whose payment has succeeded at
\* the gateway, were answered False; the order is still pending and its buyer
\* has the balance they started with
C31_Witness ==
    \E i, j \in 1..Len(hook.log) :
       /\ hook.log[i].body = "succeeded_unpaid"
       /\ hook.log[j].body = "not_succeeded"
       /\ hook.log[i].inv \in Orders
       /\ hook.log[j].inv = hook.log[i].inv
       /\ hook.log[i].outcome = "False"
       /\ orders[hook.log[i].inv].status = "pending"
       /\ gateway[hook.log[i].inv] = "succeeded"
       /\ users[orders[hook.log[i].inv].user_id].images_remaining
             = init_balance[orders[hook.log[i].inv].user_id]

\* C35: no user is their own referrer: in every reachable state the
\* referred_by_id of a user differs from the user's id, whatever referral code
\* /start carries, so no user earns a referral reward from their own activity.
C35_NoSelfReferral ==
    \A u \in Users : /\ users[u].referred_by_id # u
                     /\ \A s \in Starts : starts[s].ret = "rewarded"
                                             => starts[s].referrer # StartUser

\* the tasks inside (or waiting at) the acquire context of user u
InContext(hs, u) == {h \in Holders : hs[h].user = u /\ hs[h].pc \in {"inside", "waiting"}}

\* C32: UserProcessingLock gives per-user mutual exclusion by rejection: at
\* most one task is inside the acquire context of a user; a second acquire for
\* that user raises RuntimeError without waiting and leaves _locks and
\* _processing (the first task's mark and lock) and the other tasks as they
\* are; an acquire for a user with no task in their context enters at once,
\* whatever the contexts of other users.
C32_ExclusionByRejection ==
    [][/\ \A u \in Users :
             Cardinality({h \in Holders : holders'[h].pc = "inside"
                                            /\ holders'[h].user = u}) <= 1
       /\ \A h \in Holders : holders'[h].pc # "waiting"
       /\ \A h \in Holders :
             (holders[h].pc = "idle" /\ holders'[h].pc = "raised")
                => /\ InContext(holders, holders'[h].user) # {}
                   /\ registry'.locks = registry.locks
                   /\ registry'.processing = registry.processing
                   /\ \A w \in Holders \ {h} : holders'[w] = holders[w]
       /\ \A h \in Holders :
             (/\ holders[h].pc = "idle" /\ holders'[h].pc # "idle"
              /\ InContext(holders, holders'[h].user) = {})
                => holders'[h].pc = "inside"]_vars

\* task 1 is inside the context of user 1, task 2 was rejected for user 1,
\* and task 3 is inside the context of user 2
C32_Witness ==
    /\ holders[1].pc = "inside" /\ holders[1].user = 1
    /\ holders[2].pc = "raised" /\ holders[2].user = 1
    /\ holders[3].pc = "inside" /\ holders[3].user = 2
    /\ registry.locks[1] = "locked"

\* C33: the lock registry evicts unused entries: whenever no task is inside
\* the acquire context of a user, the user is not in _processing and _locks
\* has no entry for the user, whether the task left by return or by exception.
C33_UnusedLockEvicted ==
    \A u \in Users :
        InContext(holders, u) = {}
           => u \notin registry.processing /\ registry.locks[u] = "absent"

\* one task left the context of a user by an exception and one by return;
\* nobody is inside a context, the registry is empty and both users have a
\* timestamp
C33_Witness ==
    /\ \E h \in Holders : holders[h].pc = "idle" /\ holders[h].ret = "raised"
    /\ \E h \in Holders : holders[h].pc = "idle" /\ holders[h].ret = "returned"
    /\ \A u \in Users : InContext(holders, u) = {}
    /\ \A u \in Users : registry.lock_timestamps[u] # NoTimestamp
    /\ registry.processing = {}

\* C34: the timestamp kept for a user after the release of their lock is
\* removed by the periodic cleanup: when an acquire runs the cleanup (more than
\* cleanup_interval after the last one), every user that has been idle for
\* longer than cleanup_interval has no entry in _lock_timestamps afterwards.
C34_IdleTimestampRemoved ==
    [][registry'.last_cleanup # registry.last_cleanup
          => \A v \in Users :
                (/\ registry.lock_timestamps[v] # NoTimestamp
                 /\ wallclock - registry.lock_timestamps[v] > cleanup_interval
                 /\ v \notin registry.processing
                 /\ v \notin registry'.processing)
                   => registry'.lock_timestamps[v] = NoTimestamp]_vars

\* C36: the circuit opens when a failed call brings the count of consecutive
\* failed execute_with_retry calls to circuit_failure_threshold; a call made
\* while the circuit is open and circuit_timeout has not elapsed raises
\* CircuitBreakerOpen without invoking api_call; a call made after the
\* timeout, or with the circuit closed, goes on to api_call; a successful call
\* sets the failure count to 0 and closes the circuit.
C36_CircuitBreaker ==
    [][/\ circuit'.failure_count # circuit.failure_count
             => \/ circuit'.failure_count = 0 /\ ~circuit'.circuit_open
                \/ /\ circuit'.failure_count = circuit.failure_count + 1
                   /\ circuit'.failure_count >= circuit_failure_threshold
                         => /\ circuit'.circuit_open
                            /\ circuit'.circuit_open_time = wallclock
                   /\ circuit'.failure_count < circuit_failure_threshold
                         => ~circuit'.circuit_open
       /\ (~circuit.circuit_open /\ circuit'.circuit_open)
             => circuit'.failure_count >= circuit_failure_threshold
       /\ \A c \in ApiCalls :
             (apicalls[c].pc = "idle" /\ apicalls'[c].pc # "idle")
                => IF /\ circuit.circuit_open
                      /\ wallclock - circuit.circuit_open_time < circuit_timeout
                   THEN /\ apicalls'[c].pc = "done"
                        /\ apicalls'[c].ret = "CircuitBreakerOpen"
                        /\ apicalls'[c].invoked = 0
                        /\ circuit' = circuit
                   ELSE /\ apicalls'[c].pc = "attempt"
                        /\ ~circuit'.circuit_open
       /\ \A c \in ApiCalls :
             (apicalls[c].pc = "attempt" /\ apicalls'[c].ret = "result")
                => circuit'.failure_count = 0 /\ ~circuit'.circuit_open]_vars

\* the circuit opened, one call was refused while it was open, and after
\* circuit_timeout another call went through and succeeded: the count is 0 and
\* the circuit is closed
C36_Witness ==
    /\ apicalls[1].pc = "done" /\ apicalls[1].ret = "CircuitBreakerOpen"
    /\ apicalls[2].pc = "done" /\ apicalls[2].ret = "result"
    /\ wallclock - circuit.circuit_open_time >= circuit_timeout
    /\ circuit.failure_count = 0
    /\ ~circuit.circuit_open

\* C37: one execute_with_retry call invokes api_call at most max_retries
\* times; it invokes it again only after a timeout or client error, ends at
\* the first unexpected exception, returns the first successful result, and
\* when no attempt succeeded records exactly one failure, at its end, and
\* raises the last exception.
C37_BoundedRetry ==
    [][\A c \in ApiCalls :
          /\ apicalls'[c].invoked <= max_retries
          /\ (apicalls'[c].invoked > apicalls[c].invoked /\ apicalls[c].invoked > 0)
                => apicalls[c].last_exception \in {"timeout", "client_error"}
          /\ (apicalls[c].pc = "attempt" /\ apicalls'[c] # apicalls[c])
                => /\ apicalls'[c].invoked = apicalls[c].invoked + 1
                   /\ apicalls'[c].pc \in {"done", "sleep"}
                   /\ apicalls'[c].pc = "sleep"
                         => /\ apicalls'[c].last_exception \in {"timeout", "client_error"}
                            /\ apicalls'[c].invoked < max_retries
                            /\ circuit' = circuit
                   /\ apicalls'[c].pc = "done"
                         => \/ /\ apicalls'[c].ret = "result"
                               /\ circuit'.failure_count = 0
                            \/ /\ apicalls'[c].ret = apicalls'[c].last_exception
                               /\ apicalls'[c].ret \in {"timeout", "client_error",
                                                        "unexpected"}
                               /\ apicalls'[c].ret # "unexpected"
                                     => apicalls'[c].invoked = max_retries
                               /\ circuit'.failure_count = circuit.failure_count + 1
          /\ (apicalls[c].pc \in {"sleep", "done"} /\ apicalls'[c] # apicalls[c])
                => /\ apicalls'[c].invoked \in {0, apicalls[c].invoked}
                   /\ circuit' = circuit]_vars

\* one call timed out, slept, and ended with a client error at its second and
\* last attempt; the other call ended at an unexpected exception of its first
\* attempt; two failures are recorded
C37_Witness ==
    /\ apicalls[1].pc = "done" /\ apicalls[1].invoked = max_retries
    /\ apicalls[1].ret = "client_error"
    /\ apicalls[2].pc = "done" /\ apicalls[2].invoked = 1
    /\ apicalls[2].ret = "unexpected"
    /\ circuit.failure_count = 2

====
